---- MODULE Spec2Model ----
(***************************************************************************)
(* The columnar value model of src/query/expression/src/values.rs:         *)
(* DataType, ScalarRef, Column, ColumnBuilder and Domain as tagged records, *)
(* the builder as a state machine (with_capacity, push, push_default,      *)
(* build) and index / slice / domain applied to the built column.          *)
(*                                                                         *)
(* Byte strings are sequences of byte values (<<97>> is "a"); a usize      *)
(* range a..b is the pair of its bounds; an aborted operation (assert!,    *)
(* unreachable!, unwrap on None) yields the value Panic.                   *)
(***************************************************************************)
EXTENDS Integers, Sequences, FiniteSets, TLC

\* Largest number of rows a builder accumulates.
MaxRows == 3

None == [k |-> "None"]
Some(x) == [k |-> "Some", v |-> x]
Panic == [k |-> "Panic"]

\* ---------------------------------------------------------------- DataType
TNull == [k |-> "Null"]
TEmptyArray == [k |-> "EmptyArray"]
TEmptyMap == [k |-> "EmptyMap"]
TNumber(n) == [k |-> "Number", ty |-> n]
TBoolean == [k |-> "Boolean"]
TString == [k |-> "String"]
TTimestamp == [k |-> "Timestamp"]
TDate == [k |-> "Date"]
TVariant == [k |-> "Variant"]
TNullable(t) == [k |-> "Nullable", inner |-> t]
TArray(t) == [k |-> "Array", inner |-> t]
TMap(t) == [k |-> "Map", inner |-> t]
TTuple(fs) == [k |-> "Tuple", fields |-> fs]

TInt32 == TNumber("Int32")

\* ---------------------------------------------------------------- ScalarRef
SNull == [k |-> "Null"]
SEmptyArray == [k |-> "EmptyArray"]
SEmptyMap == [k |-> "EmptyMap"]
SNumber(n, x) == [k |-> "Number", ty |-> n, v |-> x]
SBoolean(x) == [k |-> "Boolean", v |-> x]
SString(x) == [k |-> "String", v |-> x]
STimestamp(x) == [k |-> "Timestamp", v |-> x]
SDate(x) == [k |-> "Date", v |-> x]
SVariant(x) == [k |-> "Variant", v |-> x]
SArray(c) == [k |-> "Array", v |-> c]
SMap(c) == [k |-> "Map", v |-> c]
STuple(xs) == [k |-> "Tuple", v |-> xs]

SInt32(x) == SNumber("Int32", x)

\* ---------------------------------------------------------------- Column
CNull(n) == [k |-> "Null", len |-> n]
CNumber(n, xs) == [k |-> "Number", ty |-> n, vals |-> xs]
CTimestamp(xs) == [k |-> "Timestamp", vals |-> xs]
CString(d, o) == [k |-> "String", data |-> d, offsets |-> o]
CVariant(d, o) == [k |-> "Variant", data |-> d, offsets |-> o]
CArray(vs, o) == [k |-> "Array", values |-> vs, offsets |-> o]
CMap(vs, o) == [k |-> "Map", values |-> vs, offsets |-> o]
CNullable(c, bits) == [k |-> "Nullable", column |-> c, validity |-> bits]
CTuple(fs, n) == [k |-> "Tuple", fields |-> fs, len |-> n]

\* ---------------------------------------------------------------- recursion
\* The JSONB encoding of null, pushed by push_default into a Variant builder.
JSONB_NULL == <<32, 0, 0, 0, 0, 0, 0, 0>>

RECURSIVE ColumnBuilder_with_capacity(_)
RECURSIVE ColumnBuilder_len(_)
RECURSIVE ColumnBuilder_push(_, _)
RECURSIVE ColumnBuilder_push_default(_)
RECURSIVE ColumnBuilder_append_column(_, _)
RECURSIVE ColumnBuilder_build(_)
RECURSIVE Column_len(_)
RECURSIVE Column_index(_, _)
RECURSIVE Column_slice(_, _, _)
RECURSIVE Column_data_type(_)
RECURSIVE Column_domain(_)
RECURSIVE ScalarRef_partial_cmp(_, _)
RECURSIVE Column_partial_cmp(_, _)

\* ---------------------------------------------------------------- ColumnBuilder
\* ColumnBuilder::with_capacity; the capacity only sizes the allocation.
ColumnBuilder_with_capacity(ty) ==
  CASE ty.k = "Null" -> [k |-> "Null", len |-> 0]
    [] ty.k = "EmptyArray" -> [k |-> "EmptyArray", len |-> 0]
    [] ty.k = "EmptyMap" -> [k |-> "EmptyMap", len |-> 0]
    [] ty.k = "Number" -> [k |-> "Number", ty |-> ty.ty, vals |-> <<>>]
    [] ty.k = "Boolean" -> [k |-> "Boolean", vals |-> <<>>]
    [] ty.k = "String" -> [k |-> "String", data |-> <<>>, offsets |-> <<0>>]
    [] ty.k = "Timestamp" -> [k |-> "Timestamp", vals |-> <<>>]
    [] ty.k = "Date" -> [k |-> "Date", vals |-> <<>>]
    [] ty.k = "Nullable" -> [k |-> "Nullable", builder |-> ColumnBuilder_with_capacity(ty.inner), validity |-> <<>>]
    [] ty.k = "Array" -> [k |-> "Array", builder |-> ColumnBuilder_with_capacity(ty.inner), offsets |-> <<0>>]
    [] ty.k = "Map" -> [k |-> "Map", builder |-> ColumnBuilder_with_capacity(ty.inner), offsets |-> <<0>>]
    [] ty.k = "Tuple" ->
         [k |-> "Tuple", fields |-> [i \in 1..Len(ty.fields) |-> ColumnBuilder_with_capacity(ty.fields[i])], len |-> 0]
    [] ty.k = "Variant" -> [k |-> "Variant", data |-> <<>>, offsets |-> <<0>>]
    [] OTHER -> Panic

ColumnBuilder_len(b) ==
  CASE b.k \in {"Null", "EmptyArray", "EmptyMap"} -> b.len
    [] b.k \in {"Number", "Boolean", "Timestamp", "Date"} -> Len(b.vals)
    [] b.k \in {"String", "Variant"} -> Len(b.offsets) - 1
    [] b.k \in {"Array", "Map"} -> Len(b.offsets) - 1
    [] b.k = "Nullable" -> Len(b.validity)
    [] b.k = "Tuple" -> b.len

\* NumberColumnBuilder::push: the scalar's kind must be the builder's.
NumberColumnBuilder_push(b, s) ==
  IF b.ty = s.ty THEN [k |-> "Number", ty |-> b.ty, vals |-> Append(b.vals, s.v)] ELSE Panic

\* StringColumnBuilder::put_slice: the bytes go to the end of the data buffer.
put_slice(b, bytes) == [b EXCEPT !.data = b.data \o bytes]

\* StringColumnBuilder::commit_row: the row ends where the data buffer ends.
commit_row(b) == [b EXCEPT !.offsets = Append(b.offsets, Len(b.data))]

\* StringColumnBuilder::append_column: the other column's rows, its offsets
\* rebased (the first offset of a sliced column is not zero).
StringColumnBuilder_append_column(b, other) ==
  LET start == other.offsets[1]
      end == other.offsets[Len(other.offsets)]
      base == Len(b.data) - start
  IN  [b EXCEPT !.data = b.data \o SubSeq(other.data, start + 1, end),
                !.offsets = b.offsets \o
                   [i \in 1..(Len(other.offsets) - 1) |-> other.offsets[i + 1] + base]]

\* ArrayColumnBuilder::push: the row's values are appended to the inner
\* builder, the new offset is the inner builder's length.
ArrayColumnBuilder_push(b, item) ==
  LET inner == ColumnBuilder_append_column(b.builder, item)
  IN  IF inner = Panic THEN Panic
      ELSE [b EXCEPT !.builder = inner,
                     !.offsets = Append(b.offsets, ColumnBuilder_len(inner))]

\* ArrayColumnBuilder::push_default: an empty row.
ArrayColumnBuilder_push_default(b) ==
  [b EXCEPT !.offsets = Append(b.offsets, ColumnBuilder_len(b.builder))]

\* ArrayColumnBuilder::append_column: the values the other column's offsets
\* cover, and its offsets rebased onto this builder's last offset.
ArrayColumnBuilder_append_column(b, other) ==
  LET start == other.offsets[1]
      end == other.offsets[Len(other.offsets)]
      vals == Column_slice(other.values, start, end)
      inner == IF vals = Panic THEN Panic
               ELSE ColumnBuilder_append_column(b.builder, vals)
      base == b.offsets[Len(b.offsets)] - start
  IN  IF inner = Panic THEN Panic
      ELSE [b EXCEPT !.builder = inner,
                     !.offsets = b.offsets \o
                        [i \in 1..(Len(other.offsets) - 1) |-> other.offsets[i + 1] + base]]

\* NullableColumnBuilder::push: the value goes to the inner builder, the row is valid.
NullableColumnBuilder_push(b, s) ==
  LET inner == ColumnBuilder_push(b.builder, s)
  IN  IF inner = Panic THEN Panic
      ELSE [k |-> "Nullable", builder |-> inner, validity |-> Append(b.validity, TRUE)]

\* NullableColumnBuilder::push_null: a placeholder (the inner default) and an unset bit.
NullableColumnBuilder_push_null(b) ==
  [k |-> "Nullable", builder |-> ColumnBuilder_push_default(b.builder), validity |-> Append(b.validity, FALSE)]

\* NullableColumnBuilder::append_column.
NullableColumnBuilder_append_column(b, other) ==
  LET inner == ColumnBuilder_append_column(b.builder, other.column)
  IN  IF inner = Panic THEN Panic
      ELSE [k |-> "Nullable", builder |-> inner, validity |-> b.validity \o other.validity]

\* A push into a Tuple builder that forgets to count the row.
ColumnBuilder_push_Tuple_no_len(b, value) ==
  IF Len(b.fields) # Len(value) THEN Panic
  ELSE LET fs == [i \in 1..Len(b.fields) |-> ColumnBuilder_push(b.fields[i], value[i])]
       IN  IF \E i \in 1..Len(fs) : fs[i] = Panic THEN Panic
           ELSE [k |-> "Tuple", fields |-> fs, len |-> b.len]

\* A Tuple push that pairs the fields with the scalars it is given and
\* leaves the other fields as they are, without comparing the counts.
ColumnBuilder_push_Tuple_zip(b, value) ==
  LET fs == [i \in 1..Len(b.fields) |->
               IF i <= Len(value) THEN ColumnBuilder_push(b.fields[i], value[i])
               ELSE b.fields[i]]
  IN  IF \E i \in 1..Len(fs) : fs[i] = Panic THEN Panic
      ELSE [k |-> "Tuple", fields |-> fs, len |-> b.len + 1]

\* push, the Tuple arm: one scalar to each field builder, and one more row.
ColumnBuilder_push_Tuple(b, value) ==
  IF Len(b.fields) # Len(value) THEN Panic
  ELSE LET fs == [i \in 1..Len(b.fields) |-> ColumnBuilder_push(b.fields[i], value[i])]
       IN  IF \E i \in 1..Len(fs) : fs[i] = Panic THEN Panic
           ELSE [k |-> "Tuple", fields |-> fs, len |-> b.len + 1]

ColumnBuilder_push(b, item) ==
  CASE b.k = "Null" /\ item.k = "Null" -> [k |-> "Null", len |-> b.len + 1]
    [] b.k = "EmptyArray" /\ item.k = "EmptyArray" -> [k |-> "EmptyArray", len |-> b.len + 1]
    [] b.k = "EmptyMap" /\ item.k = "EmptyMap" -> [k |-> "EmptyMap", len |-> b.len + 1]
    [] b.k = "Number" /\ item.k = "Number" -> NumberColumnBuilder_push(b, item)
    [] b.k = "Boolean" /\ item.k = "Boolean" -> [k |-> "Boolean", vals |-> Append(b.vals, item.v)]
    [] b.k = "String" /\ item.k = "String" -> commit_row(put_slice(b, item.v))
    [] b.k = "Timestamp" /\ item.k = "Timestamp" -> [k |-> "Timestamp", vals |-> Append(b.vals, item.v)]
    [] b.k = "Date" /\ item.k = "Date" -> [k |-> "Date", vals |-> Append(b.vals, item.v)]
    [] b.k = "Array" /\ item.k = "Array" -> ArrayColumnBuilder_push(b, item.v)
    [] b.k = "Map" /\ item.k = "Map" -> ArrayColumnBuilder_push(b, item.v)
    [] b.k = "Nullable" /\ item.k = "Null" -> NullableColumnBuilder_push_null(b)
    [] b.k = "Nullable" /\ item.k # "Null" -> NullableColumnBuilder_push(b, item)
    [] b.k = "Tuple" /\ item.k = "Tuple" -> ColumnBuilder_push_Tuple(b, item.v)
    [] b.k = "Variant" /\ item.k = "Variant" -> commit_row(put_slice(b, item.v))
    [] OTHER -> Panic

ColumnBuilder_push_default(b) ==
  CASE b.k = "Null" -> [k |-> "Null", len |-> b.len + 1]
    [] b.k = "EmptyArray" -> [k |-> "EmptyArray", len |-> b.len + 1]
    [] b.k = "EmptyMap" -> [k |-> "EmptyMap", len |-> b.len + 1]
    [] b.k = "Number" -> [k |-> "Number", ty |-> b.ty, vals |-> Append(b.vals, 0)]
    [] b.k = "Boolean" -> [k |-> "Boolean", vals |-> Append(b.vals, FALSE)]
    [] b.k = "String" -> commit_row(b)
    [] b.k = "Timestamp" -> [k |-> "Timestamp", vals |-> Append(b.vals, 0)]
    [] b.k = "Date" -> [k |-> "Date", vals |-> Append(b.vals, 0)]
    [] b.k = "Array" -> ArrayColumnBuilder_push_default(b)
    [] b.k = "Map" -> ArrayColumnBuilder_push_default(b)
    [] b.k = "Nullable" -> NullableColumnBuilder_push_null(b)
    [] b.k = "Tuple" ->
         [k |-> "Tuple", fields |-> [i \in 1..Len(b.fields) |-> ColumnBuilder_push_default(b.fields[i])], len |-> b.len + 1]
    [] b.k = "Variant" -> commit_row(put_slice(b, JSONB_NULL))

\* An append that takes the other column's first row only.
ColumnBuilder_append_column_first_row(b, other) ==
  IF Column_len(other) = 0 THEN b
  ELSE ColumnBuilder_push(b, Column_index(other, 0).v)

ColumnBuilder_append_column(b, other) ==
  CASE b.k = "Null" /\ other.k = "Null" -> [k |-> "Null", len |-> b.len + other.len]
    [] b.k = "EmptyArray" /\ other.k = "EmptyArray" -> [k |-> "EmptyArray", len |-> b.len + other.len]
    [] b.k = "EmptyMap" /\ other.k = "EmptyMap" -> [k |-> "EmptyMap", len |-> b.len + other.len]
    [] b.k = "Number" /\ other.k = "Number" ->
         IF b.ty = other.ty THEN [k |-> "Number", ty |-> b.ty, vals |-> b.vals \o other.vals] ELSE Panic
    [] b.k = "Boolean" /\ other.k = "Boolean" -> [k |-> "Boolean", vals |-> b.vals \o other.vals]
    [] b.k = "String" /\ other.k = "String" -> StringColumnBuilder_append_column(b, other)
    [] b.k = "Variant" /\ other.k = "Variant" -> StringColumnBuilder_append_column(b, other)
    [] b.k = "Timestamp" /\ other.k = "Timestamp" -> [k |-> "Timestamp", vals |-> b.vals \o other.vals]
    [] b.k = "Date" /\ other.k = "Date" -> [k |-> "Date", vals |-> b.vals \o other.vals]
    [] b.k = "Array" /\ other.k = "Array" -> ArrayColumnBuilder_append_column(b, other)
    [] b.k = "Map" /\ other.k = "Map" -> ArrayColumnBuilder_append_column(b, other)
    [] b.k = "Nullable" /\ other.k = "Nullable" ->
         NullableColumnBuilder_append_column(b, other)
    [] b.k = "Tuple" /\ other.k = "Tuple" ->
         IF Len(b.fields) # Len(other.fields) THEN Panic
         ELSE LET fs == [i \in 1..Len(b.fields) |->
                           ColumnBuilder_append_column(b.fields[i], other.fields[i])]
              IN  IF \E i \in 1..Len(fs) : fs[i] = Panic THEN Panic
                  ELSE [k |-> "Tuple", fields |-> fs, len |-> b.len + other.len]
    [] OTHER -> Panic

ColumnBuilder_build(b) ==
  CASE b.k = "Null" -> CNull(b.len)
    [] b.k = "EmptyArray" -> [k |-> "EmptyArray", len |-> b.len]
    [] b.k = "EmptyMap" -> [k |-> "EmptyMap", len |-> b.len]
    [] b.k = "Number" -> CNumber(b.ty, b.vals)
    [] b.k = "Boolean" -> [k |-> "Boolean", vals |-> b.vals]
    [] b.k = "String" -> CString(b.data, b.offsets)
    [] b.k = "Timestamp" -> CTimestamp(b.vals)
    [] b.k = "Date" -> [k |-> "Date", vals |-> b.vals]
    [] b.k = "Array" -> CArray(ColumnBuilder_build(b.builder), b.offsets)
    [] b.k = "Map" -> CMap(ColumnBuilder_build(b.builder), b.offsets)
    [] b.k = "Nullable" -> CNullable(ColumnBuilder_build(b.builder), b.validity)
    [] b.k = "Tuple" ->
         CTuple([i \in 1..Len(b.fields) |-> ColumnBuilder_build(b.fields[i])], b.len)
    [] b.k = "Variant" -> CVariant(b.data, b.offsets)

\* ---------------------------------------------------------------- Column
Column_len(c) ==
  CASE c.k \in {"Null", "EmptyArray", "EmptyMap"} -> c.len
    [] c.k \in {"Number", "Boolean", "Timestamp", "Date"} -> Len(c.vals)
    [] c.k \in {"String", "Variant"} -> Len(c.offsets) - 1
    [] c.k \in {"Array", "Map"} -> Len(c.offsets) - 1
    [] c.k = "Nullable" -> Len(c.validity)
    [] c.k = "Tuple" -> c.len

\* Buffer::get and Bitmap::get: the element, or None past the end.
Buffer_get(vals, index) ==
  IF index < Len(vals) THEN Some(vals[index + 1]) ELSE None

\* StringColumn::index: the bytes between two consecutive offsets.
StringColumn_index(c, index) ==
  IF index + 1 < Len(c.offsets)
  THEN Some(SubSeq(c.data, c.offsets[index + 1] + 1, c.offsets[index + 2]))
  ELSE None

\* ArrayColumn::index: the values between two consecutive offsets, as a column.
ArrayColumn_index(c, index) ==
  IF index + 1 < Len(c.offsets)
  THEN Some(Column_slice(c.values, c.offsets[index + 1], c.offsets[index + 2]))
  ELSE None

\* NullableColumn::index: None past the end, Some(None) at an unset bit,
\* else the inner value.
NullableColumn_index(c, index) ==
  IF index >= Len(c.validity) THEN None
  ELSE IF ~c.validity[index + 1] THEN Some(None)
  ELSE LET inner == Column_index(c.column, index)
       IN  IF inner.k = "Some" THEN Some(inner) ELSE Panic

\* An index that reads the placeholder of a null row instead of Null.
Column_index_Nullable_placeholder(c, index) ==
  LET r == NullableColumn_index(c, index)
  IN  IF r = None \/ r = Panic THEN r
      ELSE IF r.v = None THEN Column_index(c.column, index) ELSE r.v

\* index, the Nullable arm: a null row reads as ScalarRef::Null.
Column_index_Nullable(c, index) ==
  LET r == NullableColumn_index(c, index)
  IN  IF r = None \/ r = Panic THEN r
      ELSE IF r.v = None THEN Some(SNull) ELSE r.v

Column_index(c, index) ==
  CASE c.k = "Null" -> Some(SNull)
    [] c.k = "EmptyArray" -> Some(SEmptyArray)
    [] c.k = "EmptyMap" -> Some(SEmptyMap)
    [] c.k = "Number" ->
         LET r == Buffer_get(c.vals, index)
         IN  IF r = None THEN None ELSE Some(SNumber(c.ty, r.v))
    [] c.k = "Boolean" ->
         LET r == Buffer_get(c.vals, index)
         IN  IF r = None THEN None ELSE Some(SBoolean(r.v))
    [] c.k = "String" ->
         LET r == StringColumn_index(c, index)
         IN  IF r = None THEN None ELSE Some(SString(r.v))
    [] c.k = "Timestamp" ->
         LET r == Buffer_get(c.vals, index)
         IN  IF r = None THEN None ELSE Some(STimestamp(r.v))
    [] c.k = "Date" ->
         LET r == Buffer_get(c.vals, index)
         IN  IF r = None THEN None ELSE Some(SDate(r.v))
    [] c.k = "Array" ->
         LET r == ArrayColumn_index(c, index)
         IN  IF r = None THEN None
             ELSE IF r.v = Panic THEN Panic ELSE Some(SArray(r.v))
    [] c.k = "Map" ->
         LET r == ArrayColumn_index(c, index)
         IN  IF r = None THEN None
             ELSE IF r.v = Panic THEN Panic ELSE Some(SMap(r.v))
    [] c.k = "Nullable" -> Column_index_Nullable(c, index)
    [] c.k = "Tuple" ->
         LET rs == [i \in 1..Len(c.fields) |-> Column_index(c.fields[i], index)]
         IN  IF \E i \in 1..Len(rs) : rs[i] = Panic THEN Panic
             ELSE IF \E i \in 1..Len(rs) : rs[i] = None THEN None
             ELSE Some(STuple([i \in 1..Len(rs) |-> rs[i].v]))
    [] c.k = "Variant" ->
         LET r == StringColumn_index(c, index)
         IN  IF r = None THEN None ELSE Some(SVariant(r.v))

Column_data_type(c) ==
  CASE c.k = "Null" -> TNull
    [] c.k = "EmptyArray" -> TEmptyArray
    [] c.k = "EmptyMap" -> TEmptyMap
    [] c.k = "Number" -> TNumber(c.ty)
    [] c.k = "Boolean" -> TBoolean
    [] c.k = "String" -> TString
    [] c.k = "Timestamp" -> TTimestamp
    [] c.k = "Date" -> TDate
    [] c.k = "Array" -> TArray(Column_data_type(c.values))
    [] c.k = "Map" -> TMap(Column_data_type(c.values))
    [] c.k = "Nullable" -> TNullable(Column_data_type(c.column))
    [] c.k = "Tuple" -> TTuple([i \in 1..Len(c.fields) |-> Column_data_type(c.fields[i])])
    [] c.k = "Variant" -> TVariant

\* data_type.create_deserializer(0) followed by finish_to_column(): the
\* zero-row column of the type.
finish_to_column(data_type) ==
  ColumnBuilder_build(ColumnBuilder_with_capacity(data_type))

\* Buffer::sliced(start, length) and Bitmap::sliced(start, length), called
\* with start + length inside the buffer.
Buffer_sliced(vals, start, length) == SubSeq(vals, start + 1, start + length)

\* StringColumn::slice and ArrayColumn::slice: the window of the offsets
\* buffer that delimits the rows, over the same shared data.
offsets_sliced(offsets, start, end) == Buffer_sliced(offsets, start, end - start + 1)

\* NullableColumn::slice: the validity bits and the inner column, same range.
NullableColumn_slice(c, start, end) ==
  LET inner == Column_slice(c.column, start, end)
  IN  IF inner = Panic THEN Panic
      ELSE CNullable(inner, Buffer_sliced(c.validity, start, end - start))

\* An assertion that lets an empty range through before looking at its end.
Column_slice_assert_after_empty(c, start, end) == start >= end \/ end <= Column_len(c)

\* slice, the assertion on the range: range.end <= self.len().
Column_slice_assert(c, start, end) == end <= Column_len(c)

\* A zero-length slice that hands back the column it was given.
Column_slice_empty_clone(c) == c

\* slice of an empty range (Range::is_empty is start >= end): the zero-row
\* column of the column's type.
Column_slice_empty(c) == finish_to_column(Column_data_type(c))

\* A length that forgets to subtract the start of the range.
Column_slice_len_end(start, end) == end

\* slice, the Null, EmptyArray and EmptyMap arms: len is range.end - range.start.
Column_slice_len(start, end) == end - start

\* A Tuple slice whose len is the end of the range.
Column_slice_Tuple_len_end(c, start, end) ==
  LET fs == [i \in 1..Len(c.fields) |-> Column_slice(c.fields[i], start, end)]
  IN  IF \E i \in 1..Len(fs) : fs[i] = Panic THEN Panic
      ELSE CTuple(fs, end)

\* slice, the Tuple arm: every field by the same range.
Column_slice_Tuple(c, start, end) ==
  LET fs == [i \in 1..Len(c.fields) |-> Column_slice(c.fields[i], start, end)]
  IN  IF \E i \in 1..Len(fs) : fs[i] = Panic THEN Panic
      ELSE CTuple(fs, end - start)

\* slice, the Timestamp and Date arms: sliced(range.start, range.end - range.start).
Column_slice_Buffer(vals, start, end) == Buffer_sliced(vals, start, end - start)

Column_slice(c, start, end) ==
  IF ~Column_slice_assert(c, start, end) THEN Panic
  ELSE IF start >= end THEN Column_slice_empty(c)
  ELSE CASE c.k = "Null" -> CNull(Column_slice_len(start, end))
    [] c.k = "EmptyArray" -> [k |-> "EmptyArray", len |-> Column_slice_len(start, end)]
    [] c.k = "EmptyMap" -> [k |-> "EmptyMap", len |-> Column_slice_len(start, end)]
    [] c.k = "Number" -> CNumber(c.ty, Buffer_sliced(c.vals, start, end - start))
    [] c.k = "Boolean" -> [k |-> "Boolean", vals |-> Column_slice_Buffer(c.vals, start, end)]
    [] c.k = "String" -> CString(c.data, offsets_sliced(c.offsets, start, end))
    [] c.k = "Timestamp" -> CTimestamp(Column_slice_Buffer(c.vals, start, end))
    [] c.k = "Date" -> [k |-> "Date", vals |-> Column_slice_Buffer(c.vals, start, end)]
    [] c.k = "Array" -> CArray(c.values, offsets_sliced(c.offsets, start, end))
    [] c.k = "Map" -> CMap(c.values, offsets_sliced(c.offsets, start, end))
    [] c.k = "Nullable" -> NullableColumn_slice(c, start, end)
    [] c.k = "Tuple" -> Column_slice_Tuple(c, start, end)
    [] c.k = "Variant" -> CVariant(c.data, offsets_sliced(c.offsets, start, end))

\* ---------------------------------------------------------------- Domain
DNullable(has_null, value) == [k |-> "Nullable", has_null |-> has_null, value |-> value]
DArray(inner) == [k |-> "Array", inner |-> inner]
DMap(inner) == [k |-> "Map", inner |-> inner]
DNumber(n, lo, hi) == [k |-> "Number", ty |-> n, min |-> lo, max |-> hi]
DString(lo, hi) == [k |-> "String", min |-> lo, max |-> hi]
\* The lexicographic order of byte slices (<[u8] as Ord>).
bytes_le(a, b) ==
  \/ \E i \in 1..Len(a) :
        /\ i <= Len(b)
        /\ a[i] < b[i]
        /\ \A j \in 1..(i - 1) : a[j] = b[j]
  \/ /\ Len(a) <= Len(b)
     /\ \A j \in 1..Len(a) : a[j] = b[j]

\* Itertools::minmax over a non-empty buffer of integers.
minmax(vals) ==
  [min |-> vals[CHOOSE i \in 1..Len(vals) : \A j \in 1..Len(vals) : vals[i] <= vals[j]],
   max |-> vals[CHOOSE i \in 1..Len(vals) : \A j \in 1..Len(vals) : vals[j] <= vals[i]]]

\* StringType::iter_column: the rows of a string column, in order.
StringType_iter_column(c) ==
  [i \in 1..(Len(c.offsets) - 1) |-> SubSeq(c.data, c.offsets[i] + 1, c.offsets[i + 1])]

\* Itertools::minmax over the rows of a non-empty string column.
minmax_bytes(rows) ==
  [min |-> rows[CHOOSE i \in 1..Len(rows) : \A j \in 1..Len(rows) : bytes_le(rows[i], rows[j])],
   max |-> rows[CHOOSE i \in 1..Len(rows) : \A j \in 1..Len(rows) : bytes_le(rows[j], rows[i])]]

\* Bitmap::unset_bits.
unset_bits(bits) == Cardinality({i \in 1..Len(bits) : ~bits[i]})

\* A string domain that takes the first and the last row for the extremes.
Column_domain_String_ends(c) ==
  LET rows == StringType_iter_column(c)
  IN  DString(rows[1], Some(rows[Len(rows)]))

\* domain, the String arm: the lexicographic minimum and maximum of the rows.
Column_domain_String(c) ==
  LET mm == minmax_bytes(StringType_iter_column(c))
  IN  DString(mm.min, Some(mm.max))

\* domain, the Nullable arm: the inner column's domain, and whether a
\* validity bit is unset.
Column_domain_Nullable(c) ==
  LET inner_domain == Column_domain(c.column)
  IN  IF inner_domain = Panic THEN Panic
      ELSE DNullable(unset_bits(c.validity) > 0, Some(inner_domain))

\* domain, the Array arm: the domain of the flattened values.
Column_domain_Array(c) ==
  LET inner_domain == Column_domain(c.values)
  IN  IF Column_len(c) = 0 THEN DArray(None)
      ELSE IF inner_domain = Panic THEN Panic
      ELSE DArray(Some(inner_domain))

\* A domain that asserts rows only in the arms that scan them.
Column_domain_assert_scans(c) ==
  c.k \in {"Null", "EmptyArray", "EmptyMap", "Boolean", "Variant"} \/ Column_len(c) > 0

\* domain, the assertion before the match: the column has a row.
Column_domain_assert(c) == Column_len(c) > 0

Column_domain(c) ==
  IF ~Column_domain_assert(c) THEN Panic
  ELSE CASE c.k = "Null" -> DNullable(TRUE, None)
    [] c.k = "EmptyArray" -> DArray(None)
    [] c.k = "EmptyMap" -> [k |-> "Undefined"]
    [] c.k = "Number" -> LET mm == minmax(c.vals) IN DNumber(c.ty, mm.min, mm.max)
    [] c.k = "Boolean" ->
         [k |-> "Boolean", has_false |-> unset_bits(c.vals) > 0, has_true |-> Len(c.vals) - unset_bits(c.vals) > 0]
    [] c.k = "String" -> Column_domain_String(c)
    [] c.k = "Timestamp" ->
         LET mm == minmax(c.vals) IN [k |-> "Timestamp", min |-> mm.min, max |-> mm.max]
    [] c.k = "Date" ->
         LET mm == minmax(c.vals) IN [k |-> "Date", min |-> mm.min, max |-> mm.max]
    [] c.k = "Array" -> Column_domain_Array(c)
    [] c.k = "Map" ->
         LET inner_domain == Column_domain(c.values)
         IN  IF Column_len(c) = 0 THEN DMap(None)
             ELSE IF inner_domain = Panic THEN Panic
             ELSE IF inner_domain.k = "Tuple" /\ Len(inner_domain.domains) >= 2
                  THEN DMap(Some(<<inner_domain.domains[1], inner_domain.domains[2]>>))
                  ELSE Panic
    [] c.k = "Nullable" -> Column_domain_Nullable(c)
    [] c.k = "Tuple" ->
         LET domains == [i \in 1..Len(c.fields) |-> Column_domain(c.fields[i])]
         IN  IF \E i \in 1..Len(domains) : domains[i] = Panic THEN Panic
             ELSE [k |-> "Tuple", domains |-> domains]
    [] c.k = "Variant" -> [k |-> "Undefined"]

\* ---------------------------------------------------------------- ordering
\* An Option<Ordering> is "Less", "Equal", "Greater" or "None".
int_cmp(a, b) == IF a < b THEN "Less" ELSE IF a = b THEN "Equal" ELSE "Greater"

\* bool::partial_cmp: false < true.
bool_cmp(a, b) == IF a = b THEN "Equal" ELSE IF b THEN "Less" ELSE "Greater"

\* The lexicographic comparison of two sequences (Iterator::partial_cmp,
\* <[T] as PartialOrd>), from the comparisons of their common prefix:
\* the first result that is not Equal, else the comparison of the lengths.
lexicographic(cmps, n1, n2) ==
  IF \E i \in 1..Len(cmps) : cmps[i] # "Equal"
  THEN cmps[CHOOSE i \in 1..Len(cmps) :
              cmps[i] # "Equal" /\ \A j \in 1..(i - 1) : cmps[j] = "Equal"]
  ELSE int_cmp(n1, n2)

common_prefix(n1, n2) == 1..(IF n1 < n2 THEN n1 ELSE n2)

bytes_cmp(a, b) ==
  lexicographic([i \in common_prefix(Len(a), Len(b)) |-> int_cmp(a[i], b[i])],
                Len(a), Len(b))

JSONB_TRUE == <<32, 0, 0, 0, 64, 0, 0, 0>>

\* The JSON text "true": a payload that is no JSONB container is read as
\* JSON text, and decodes to the same value as JSONB_TRUE.
JSON_TEXT_TRUE == <<116, 114, 117, 101>>

\* The text "{": neither a JSONB container nor JSON text.
JSON_MALFORMED == <<123>>

\* jsonb::compare on the payloads the model uses: the order of the decoded
\* values (null below true), an error for bytes that decode to no value.
jsonb_compare(a, b) ==
  LET rank(x) == IF x = JSONB_NULL THEN 0
                 ELSE IF x = JSONB_TRUE \/ x = JSON_TEXT_TRUE THEN 1 ELSE -1
  IN  IF rank(a) < 0 \/ rank(b) < 0 THEN "None" ELSE int_cmp(rank(a), rank(b))

\* The rows of a column as the iterator of its variant yields them:
\* the row itself, and None for the null rows of a Nullable column.
NullableColumn_iter(c) ==
  [i \in 1..Len(c.validity) |->
     IF c.validity[i] THEN Column_index(c.column, i - 1) ELSE None]

ArrayColumn_iter(c) ==
  [i \in 1..(Len(c.offsets) - 1) |-> Column_slice(c.values, c.offsets[i], c.offsets[i + 1])]

\* Option<ScalarRef>::partial_cmp: None is below every Some.
option_cmp(a, b) ==
  CASE a = None /\ b = None -> "Equal"
    [] a = None /\ b # None -> "Less"
    [] a # None /\ b = None -> "Greater"
    [] OTHER -> ScalarRef_partial_cmp(a.v, b.v)

ScalarRef_partial_cmp(a, b) ==
  CASE a.k = "Null" /\ b.k = "Null" -> "Equal"
    [] a.k = "EmptyArray" /\ b.k = "EmptyArray" -> "Equal"
    [] a.k = "EmptyMap" /\ b.k = "EmptyMap" -> "Equal"
    [] a.k = "Number" /\ b.k = "Number" -> int_cmp(a.v, b.v)
    [] a.k = "Boolean" /\ b.k = "Boolean" -> bool_cmp(a.v, b.v)
    [] a.k = "String" /\ b.k = "String" -> bytes_cmp(a.v, b.v)
    [] a.k = "Timestamp" /\ b.k = "Timestamp" -> int_cmp(a.v, b.v)
    [] a.k = "Date" /\ b.k = "Date" -> int_cmp(a.v, b.v)
    [] a.k = "Array" /\ b.k = "Array" -> Column_partial_cmp(a.v, b.v)
    [] a.k = "Map" /\ b.k = "Map" -> Column_partial_cmp(a.v, b.v)
    [] a.k = "Tuple" /\ b.k = "Tuple" ->
         lexicographic([i \in common_prefix(Len(a.v), Len(b.v)) |->
                          ScalarRef_partial_cmp(a.v[i], b.v[i])],
                       Len(a.v), Len(b.v))
    [] a.k = "Variant" /\ b.k = "Variant" -> jsonb_compare(a.v, b.v)
    [] OTHER -> "None"

\* impl PartialEq for ScalarRef.
ScalarRef_eq(a, b) == ScalarRef_partial_cmp(a, b) = "Equal"

Column_partial_cmp(c1, c2) ==
  CASE c1.k = "Null" /\ c2.k = "Null" -> int_cmp(c1.len, c2.len)
    [] c1.k = "EmptyArray" /\ c2.k = "EmptyArray" -> int_cmp(c1.len, c2.len)
    [] c1.k = "EmptyMap" /\ c2.k = "EmptyMap" -> int_cmp(c1.len, c2.len)
    [] c1.k = "Number" /\ c2.k = "Number" ->
         lexicographic([i \in common_prefix(Len(c1.vals), Len(c2.vals)) |->
                          int_cmp(c1.vals[i], c2.vals[i])],
                       Len(c1.vals), Len(c2.vals))
    [] c1.k = "Boolean" /\ c2.k = "Boolean" ->
         lexicographic([i \in common_prefix(Len(c1.vals), Len(c2.vals)) |->
                          bool_cmp(c1.vals[i], c2.vals[i])],
                       Len(c1.vals), Len(c2.vals))
    [] c1.k = "String" /\ c2.k = "String" ->
         LET r1 == StringType_iter_column(c1)
             r2 == StringType_iter_column(c2)
         IN  lexicographic([i \in common_prefix(Len(r1), Len(r2)) |->
                              bytes_cmp(r1[i], r2[i])],
                           Len(r1), Len(r2))
    [] c1.k = "Timestamp" /\ c2.k = "Timestamp" ->
         lexicographic([i \in common_prefix(Len(c1.vals), Len(c2.vals)) |->
                          int_cmp(c1.vals[i], c2.vals[i])],
                       Len(c1.vals), Len(c2.vals))
    [] c1.k = "Date" /\ c2.k = "Date" ->
         lexicographic([i \in common_prefix(Len(c1.vals), Len(c2.vals)) |->
                          int_cmp(c1.vals[i], c2.vals[i])],
                       Len(c1.vals), Len(c2.vals))
    [] c1.k \in {"Array", "Map"} /\ c2.k = c1.k ->
         LET r1 == ArrayColumn_iter(c1)
             r2 == ArrayColumn_iter(c2)
         IN  lexicographic([i \in common_prefix(Len(r1), Len(r2)) |->
                              Column_partial_cmp(r1[i], r2[i])],
                           Len(r1), Len(r2))
    [] c1.k = "Nullable" /\ c2.k = "Nullable" ->
         LET r1 == NullableColumn_iter(c1)
             r2 == NullableColumn_iter(c2)
         IN  lexicographic([i \in common_prefix(Len(r1), Len(r2)) |->
                              option_cmp(r1[i], r2[i])],
                           Len(r1), Len(r2))
    [] c1.k = "Tuple" /\ c2.k = "Tuple" ->
         lexicographic([i \in common_prefix(Len(c1.fields), Len(c2.fields)) |->
                          Column_partial_cmp(c1.fields[i], c2.fields[i])],
                       Len(c1.fields), Len(c2.fields))
    [] c1.k = "Variant" /\ c2.k = "Variant" ->
         LET r1 == StringType_iter_column(c1)
             r2 == StringType_iter_column(c2)
         IN  lexicographic([i \in common_prefix(Len(r1), Len(r2)) |->
                              jsonb_compare(r1[i], r2[i])],
                           Len(r1), Len(r2))
    [] OTHER -> "None"

\* impl PartialEq for Column.
Column_eq(c1, c2) == Column_partial_cmp(c1, c2) = "Equal"

\* ValueRef::semantically_eq. A ValueRef is a record of its variant, Scalar
\* or Column, and the value; iter_column(c).all(..) asks every row of c.
ValueRef_semantically_eq(self, other) ==
  CASE self.k = "Scalar" /\ other.k = "Scalar" -> ScalarRef_eq(self.v, other.v)
    [] self.k = "Column" /\ other.k = "Column" -> Column_eq(self.v, other.v)
    [] OTHER ->
         LET s == IF self.k = "Scalar" THEN self.v ELSE other.v
             c == IF self.k = "Column" THEN self.v ELSE other.v
         IN  \A i \in 0..(Column_len(c) - 1) : ScalarRef_eq(Column_index(c, i).v, s)

\* ---------------------------------------------------------------- arrow
\* An arrow data type is a record of its physical type and, for an
\* extension type, the extension's name; an arrow array is a record of its
\* data type, its buffers and its validity (None or Some bitmap).
RECURSIVE Column_as_arrow(_)
RECURSIVE Column_from_arrow(_, _, _)
RECURSIVE arrow_type(_)

ArrowType(k, name) == [k |-> k, name |-> name]

ARROW_EXT_TYPE_EMPTY_ARRAY == "EmptyArray"
ARROW_EXT_TYPE_EMPTY_MAP == "EmptyMap"
ARROW_EXT_TYPE_VARIANT == "Variant"

\* From<&DataType> for ArrowDataType. An extension type's name tells what
\* it extends: Null for the empty array and map, LargeBinary for Variant.
arrow_type(data_type) ==
  CASE data_type.k = "Null" -> ArrowType("Null", "")
    [] data_type.k = "EmptyArray" -> ArrowType("Extension", ARROW_EXT_TYPE_EMPTY_ARRAY)
    [] data_type.k = "EmptyMap" -> ArrowType("Extension", ARROW_EXT_TYPE_EMPTY_MAP)
    [] data_type.k = "Number" -> ArrowType(data_type.ty, "")
    [] data_type.k = "Boolean" -> ArrowType("Boolean", "")
    [] data_type.k = "String" -> ArrowType("LargeBinary", "")
    [] data_type.k = "Timestamp" -> ArrowType("Timestamp", "Microsecond")
    [] data_type.k = "Date" -> ArrowType("Date32", "")
    [] data_type.k = "Variant" -> ArrowType("Extension", ARROW_EXT_TYPE_VARIANT)
    [] data_type.k = "Nullable" -> arrow_type(data_type.inner)
    [] data_type.k = "Array" -> ArrowType("LargeList", "")
    [] data_type.k = "Map" -> ArrowType("Map", "")
    [] data_type.k = "Tuple" -> ArrowType("Struct", "")

\* StructArray::try_new: an error for a struct without fields.
StructArray_try_new(t, values) ==
  IF Len(values) = 0 THEN Panic
  ELSE [a |-> "StructArray", data_type |-> t, values |-> values, validity |-> None]

RECURSIVE Array_len(_)
\* Array::len.
Array_len(arr) ==
  CASE arr.a = "NullArray" -> arr.len
    [] arr.a \in {"PrimitiveArray", "BooleanArray"} -> Len(arr.values)
    [] arr.a \in {"BinaryArray", "ListArray", "MapArray"} -> Len(arr.offsets) - 1
    [] arr.a = "StructArray" -> Array_len(arr.values[1])

\* as_arrow, the Tuple arm and the values of the Map arm: a struct array of
\* the fields' arrays.
Column_as_arrow_Struct(fields) ==
  LET values == [i \in 1..Len(fields) |-> Column_as_arrow(fields[i])]
  IN  IF \E i \in 1..Len(values) : values[i] = Panic THEN Panic
      ELSE StructArray_try_new(ArrowType("Struct", ""), values)

\* Column::as_arrow. A new array carries no validity. The Nullable arm puts
\* the column's validity onto the inner array (Array::with_validity) unless
\* that is a null array: of the Null type, or of an extension of it.
Column_as_arrow(c) ==
  LET t == arrow_type(Column_data_type(c))
  IN  CASE c.k \in {"Null", "EmptyArray", "EmptyMap"} ->
             [a |-> "NullArray", data_type |-> t, len |-> c.len, validity |-> None]
        [] c.k \in {"Number", "Timestamp", "Date"} ->
             [a |-> "PrimitiveArray", data_type |-> t, values |-> c.vals,
              validity |-> None]
        [] c.k = "Boolean" ->
             [a |-> "BooleanArray", data_type |-> t, values |-> c.vals,
              validity |-> None]
        [] c.k \in {"String", "Variant"} ->
             [a |-> "BinaryArray", data_type |-> t, offsets |-> c.offsets,
              values |-> c.data, validity |-> None]
        [] c.k = "Array" ->
             LET values == Column_as_arrow(c.values)
             IN  IF values = Panic THEN Panic
                 ELSE [a |-> "ListArray", data_type |-> t, offsets |-> c.offsets,
                       values |-> values, validity |-> None]
        [] c.k = "Map" ->
             LET values == IF c.values.k = "Tuple"
                           THEN Column_as_arrow_Struct(c.values.fields) ELSE Panic
             IN  IF values = Panic THEN Panic
                 ELSE [a |-> "MapArray", data_type |-> t, offsets |-> c.offsets,
                       field |-> values, validity |-> None]
        [] c.k = "Nullable" ->
             LET arrow_array == Column_as_arrow(c.column)
             IN  IF arrow_array = Panic THEN Panic
                 ELSE IF arrow_array.data_type.k = "Null" THEN arrow_array
                 ELSE IF arrow_array.data_type.k = "Extension"
                           /\ arrow_array.data_type.name
                                \in {ARROW_EXT_TYPE_EMPTY_ARRAY, ARROW_EXT_TYPE_EMPTY_MAP}
                      THEN arrow_array
                 ELSE [arrow_array EXCEPT !.validity = Some(c.validity)]
        [] c.k = "Tuple" ->
             LET arr == Column_as_arrow_Struct(c.fields)
             IN  IF arr = Panic THEN Panic ELSE [arr EXCEPT !.data_type = t]

\* An i64 on which arithmetic is done is its eight bytes, least significant
\* first, in two's complement.
RECURSIVE mul_add(_, _, _)
\* bytes * m + carry in the width of bytes: what does not fit is dropped.
mul_add(bytes, m, carry) ==
  IF bytes = << >> THEN << >>
  ELSE LET p == Head(bytes) * m + carry
       IN  << p % 256 >> \o mul_add(Tail(bytes), m, p \div 256)

\* The same value in n bytes.
sign_extend(bytes, n) ==
  bytes \o [i \in 1..(n - Len(bytes)) |-> IF bytes[Len(bytes)] >= 128 THEN 255 ELSE 0]

wrapping_neg(bytes) == mul_add([i \in 1..Len(bytes) |-> 255 - bytes[i]], 1, 1)

\* from_arrow, the Timestamp arm: the (multiplier, divisor) of the unit,
\* applied to every value, to microseconds, and the column of the results.
\* Microsecond values are cloned as they are.
\* i64_mul is x * m, m > 0: Some product, or None when it is outside i64
\* and the build has overflow checks, where the program aborts; in a build
\* without them the product wraps. i64_div is x / d, d > 0: the quotient
\* truncated toward zero.
timestamp_convert(unit, values, overflow_checks) ==
  LET i64_mul(x, m) ==
        LET wide == mul_add(sign_extend(x, 12), m, 0)
            wrapped == SubSeq(wide, 1, 8)
        IN  IF overflow_checks /\ sign_extend(wrapped, 12) # wide THEN None
            ELSE Some(wrapped)
      i64_div(x, d) ==
        LET neg == x[8] >= 128
            mag == IF neg THEN wrapping_neg(x) ELSE x
            RECURSIVE long_div(_, _)
            long_div(i, rem) ==
              IF i = 0 THEN << >>
              ELSE LET cur == rem * 256 + mag[i]
                   IN  long_div(i - 1, cur % d) \o << cur \div d >>
            q == long_div(8, 0)
        IN  IF neg THEN wrapping_neg(q) ELSE q
      convert == CASE unit = "Second" -> << 1000000, 1 >>
                   [] unit = "Millisecond" -> << 1000, 1 >>
                   [] unit = "Microsecond" -> << 1, 1 >>
                   [] unit = "Nanosecond" -> << 1, 1000 >>
      product(x) == i64_mul(x, convert[1])
  IN  IF convert[1] = 1 /\ convert[2] = 1 THEN CTimestamp(values)
      ELSE IF \E i \in 1..Len(values) : product(values[i]) = None THEN Panic
      ELSE CTimestamp([i \in 1..Len(values) |->
                        i64_div(product(values[i]).v, convert[2])])

\* Column::from_arrow, in a build with or without overflow checks. The
\* declared type is matched without its Nullable
\* level (DataType::is_nullable, DataType::remove_nullable); at the end a
\* nullable type wraps the column with the array's validity, or with an
\* all-true bitmap when the array has none.
Column_from_arrow(arrow_col, declared, overflow_checks) ==
  LET is_nullable == declared.k = "Nullable"
      data_type == IF is_nullable THEN declared.inner ELSE declared
      t == arrow_col.data_type
      nested(arr, ty_ok, inner_type) ==
        IF ~ty_ok THEN Panic ELSE Column_from_arrow(arr, inner_type, overflow_checks)
      column ==
        CASE t.k = "Null" -> CNull(Array_len(arrow_col))
          [] t.k = "Extension" /\ t.name = ARROW_EXT_TYPE_EMPTY_ARRAY ->
               [k |-> "EmptyArray", len |-> Array_len(arrow_col)]
          [] t.k = "Extension" /\ t.name = ARROW_EXT_TYPE_EMPTY_MAP ->
               [k |-> "EmptyMap", len |-> Array_len(arrow_col)]
          [] t.k = "Int32" -> CNumber("Int32", arrow_col.values)
          [] t.k = "Boolean" -> [k |-> "Boolean", vals |-> arrow_col.values]
          [] t.k = "LargeBinary" -> CString(arrow_col.values, arrow_col.offsets)
          [] t.k = "Timestamp" ->
               timestamp_convert(t.name, arrow_col.values, overflow_checks)
          [] t.k = "Date32" -> [k |-> "Date", vals |-> arrow_col.values]
          [] t.k = "Extension" /\ t.name = ARROW_EXT_TYPE_VARIANT ->
               CVariant(arrow_col.values, arrow_col.offsets)
          [] t.k = "LargeList" ->
               LET values == nested(arrow_col.values, data_type.k = "Array", data_type.inner)
               IN  IF values = Panic THEN Panic ELSE CArray(values, arrow_col.offsets)
          [] t.k = "Map" ->
               LET values == nested(arrow_col.field, data_type.k = "Map", data_type.inner)
               IN  IF values = Panic THEN Panic ELSE CMap(values, arrow_col.offsets)
          [] t.k = "Struct" ->
               IF data_type.k # "Tuple" THEN Panic
               ELSE LET n == IF Len(arrow_col.values) < Len(data_type.fields)
                             THEN Len(arrow_col.values) ELSE Len(data_type.fields)
                        fields == [i \in 1..n |->
                                     Column_from_arrow(arrow_col.values[i], data_type.fields[i],
                                                       overflow_checks)]
                    IN  IF \E i \in 1..n : fields[i] = Panic THEN Panic
                        ELSE CTuple(fields, Array_len(arrow_col))
          [] OTHER -> Panic
  IN  IF column = Panic THEN Panic
      ELSE IF is_nullable
           THEN CNullable(column,
                          IF arrow_col.validity = None
                          THEN [i \in 1..Array_len(arrow_col) |-> TRUE]
                          ELSE arrow_col.validity.v)
      ELSE column

\* ---------------------------------------------------------------- Scalar
\* An owned Scalar and the ScalarRef borrowed from it hold the same fields,
\* so both are the records of the ScalarRef section.
RECURSIVE Scalar_as_ref(_)
RECURSIVE Scalar_partial_cmp(_, _)
RECURSIVE ScalarRef_hash(_)
RECURSIVE serialize_column(_)
RECURSIVE Concat(_)

\* Scalar::as_ref: variant by variant, the fields of a Tuple one by one.
Scalar_as_ref(s) ==
  CASE s.k = "Null" -> SNull
    [] s.k = "EmptyArray" -> SEmptyArray
    [] s.k = "EmptyMap" -> SEmptyMap
    [] s.k = "Number" -> SNumber(s.ty, s.v)
    [] s.k = "Boolean" -> SBoolean(s.v)
    [] s.k = "String" -> SString(s.v)
    [] s.k = "Timestamp" -> STimestamp(s.v)
    [] s.k = "Date" -> SDate(s.v)
    [] s.k = "Array" -> SArray(s.v)
    [] s.k = "Map" -> SMap(s.v)
    [] s.k = "Tuple" -> STuple([i \in 1..Len(s.v) |-> Scalar_as_ref(s.v[i])])
    [] s.k = "Variant" -> SVariant(s.v)

\* A comparison of Scalars that orders differing variants instead of
\* leaving them unordered.
Scalar_partial_cmp_ranked(a, b) ==
  IF a.k = b.k THEN ScalarRef_partial_cmp(Scalar_as_ref(a), Scalar_as_ref(b))
  ELSE "Less"

\* impl PartialOrd for Scalar.
Scalar_partial_cmp(a, b) ==
  CASE a.k = "Null" /\ b.k = "Null" -> "Equal"
    [] a.k = "EmptyArray" /\ b.k = "EmptyArray" -> "Equal"
    [] a.k = "EmptyMap" /\ b.k = "EmptyMap" -> "Equal"
    [] a.k = "Number" /\ b.k = "Number" -> int_cmp(a.v, b.v)
    [] a.k = "Boolean" /\ b.k = "Boolean" -> bool_cmp(a.v, b.v)
    [] a.k = "String" /\ b.k = "String" -> bytes_cmp(a.v, b.v)
    [] a.k = "Timestamp" /\ b.k = "Timestamp" -> int_cmp(a.v, b.v)
    [] a.k = "Date" /\ b.k = "Date" -> int_cmp(a.v, b.v)
    [] a.k = "Array" /\ b.k = "Array" -> Column_partial_cmp(a.v, b.v)
    [] a.k = "Map" /\ b.k = "Map" -> Column_partial_cmp(a.v, b.v)
    [] a.k = "Tuple" /\ b.k = "Tuple" ->
         lexicographic([i \in common_prefix(Len(a.v), Len(b.v)) |->
                          Scalar_partial_cmp(a.v[i], b.v[i])],
                       Len(a.v), Len(b.v))
    [] a.k = "Variant" /\ b.k = "Variant" -> jsonb_compare(a.v, b.v)
    [] OTHER -> "None"

\* impl Ord for Scalar: partial_cmp(..).unwrap_or(Ordering::Equal).
Scalar_cmp(a, b) ==
  LET r == Scalar_partial_cmp(a, b) IN IF r = "None" THEN "Equal" ELSE r

\* impl PartialEq for Scalar.
Scalar_eq(a, b) == Scalar_partial_cmp(a, b) = "Equal"

\* An Ord for ScalarRef whose fallback for unordered pairs is Less.
ScalarRef_cmp_less(a, b) ==
  LET r == ScalarRef_partial_cmp(a, b) IN IF r = "None" THEN "Less" ELSE r

\* impl Ord for ScalarRef: partial_cmp(..).unwrap_or(Ordering::Equal).
ScalarRef_cmp(a, b) ==
  LET r == ScalarRef_partial_cmp(a, b) IN IF r = "None" THEN "Equal" ELSE r

\* The concatenation of a sequence of sequences.
Concat(ss) == IF ss = << >> THEN << >> ELSE Head(ss) \o Concat(Tail(ss))

\* Hash for [u8] and Vec<T>: the length, then the elements.
hash_slice(bytes) == << Len(bytes) >> \o bytes

\* serialize_column: the canonical bytes of a column, as integers: a tag
\* for the variant, the row count, and the rows' content in row order
\* (offsets rebased to the first row, validity bits as 0 and 1).
serialize_column(c) ==
  LET bit(b) == IF b THEN 1 ELSE 0
      window(data, offsets) ==
        << Len(offsets) - 1 >>
          \o [i \in 1..Len(offsets) |-> offsets[i] - offsets[1]]
          \o SubSeq(data, offsets[1] + 1, offsets[Len(offsets)])
  IN  CASE c.k = "Null" -> << 0, c.len >>
        [] c.k = "EmptyArray" -> << 1, c.len >>
        [] c.k = "EmptyMap" -> << 2, c.len >>
        [] c.k = "Number" -> << 3, Len(c.vals) >> \o c.vals
        [] c.k = "Boolean" -> << 4, Len(c.vals) >> \o [i \in 1..Len(c.vals) |-> bit(c.vals[i])]
        [] c.k = "String" -> << 5 >> \o window(c.data, c.offsets)
        [] c.k = "Timestamp" -> << 6, Len(c.vals) >> \o c.vals
        [] c.k = "Date" -> << 7, Len(c.vals) >> \o c.vals
        [] c.k = "Variant" -> << 8 >> \o window(c.data, c.offsets)
        [] c.k \in {"Array", "Map"} ->
             << IF c.k = "Array" THEN 9 ELSE 10, Len(c.offsets) - 1 >>
               \o [i \in 1..Len(c.offsets) |-> c.offsets[i] - c.offsets[1]]
               \o serialize_column(Column_slice(c.values, c.offsets[1], c.offsets[Len(c.offsets)]))
        [] c.k = "Nullable" ->
             << 11, Len(c.validity) >>
               \o [i \in 1..Len(c.validity) |-> bit(c.validity[i])]
               \o serialize_column(c.column)
        [] c.k = "Tuple" ->
             << 12, c.len, Len(c.fields) >>
               \o Concat([i \in 1..Len(c.fields) |-> serialize_column(c.fields[i])])

\* impl Hash for ScalarRef: what the scalar writes to the hasher, as
\* integers. Two scalars hash alike when they write the same.
ScalarRef_hash(s) ==
  CASE s.k \in {"Null", "EmptyArray", "EmptyMap"} -> << >>
    [] s.k = "Number" -> << s.v >>
    [] s.k = "Boolean" -> << IF s.v THEN 1 ELSE 0 >>
    [] s.k = "String" -> hash_slice(s.v)
    [] s.k = "Timestamp" -> << s.v >>
    [] s.k = "Date" -> << s.v >>
    [] s.k \in {"Array", "Map"} -> hash_slice(serialize_column(s.v))
    [] s.k = "Tuple" ->
         << Len(s.v) >> \o Concat([i \in 1..Len(s.v) |-> ScalarRef_hash(s.v[i])])
    [] s.k = "Variant" -> hash_slice(s.v)

\* impl Hash for Scalar.
Scalar_hash(s) == ScalarRef_hash(Scalar_as_ref(s))

\* ---------------------------------------------------------------- ScalarRef::domain
RECURSIVE ScalarRef_domain(_, _)

\* A wrapper that reports a null for a scalar that is not null.
ScalarRef_domain_Nullable_has_null(domain) == DNullable(TRUE, Some(domain))

\* domain, a non-null scalar of a Nullable type: the inner domain, wrapped.
ScalarRef_domain_Nullable(domain) == DNullable(FALSE, Some(domain))

ScalarRef_domain(s, data_type) ==
  IF s.k # "Null" /\ data_type.k = "Nullable"
  THEN LET domain == ScalarRef_domain(s, data_type.inner)
       IN  IF domain = Panic THEN Panic ELSE ScalarRef_domain_Nullable(domain)
  ELSE CASE s.k = "Null" -> DNullable(TRUE, None)
    [] s.k = "EmptyArray" -> DArray(None)
    [] s.k = "EmptyMap" -> DMap(None)
    [] s.k = "Number" -> DNumber(s.ty, s.v, s.v)
    [] s.k = "Boolean" -> IF s.v THEN [k |-> "Boolean", has_false |-> FALSE, has_true |-> TRUE] ELSE [k |-> "Boolean", has_false |-> TRUE, has_true |-> FALSE]
    [] s.k = "String" -> DString(s.v, Some(s.v))
    [] s.k = "Timestamp" -> [k |-> "Timestamp", min |-> s.v, max |-> s.v]
    [] s.k = "Date" -> [k |-> "Date", min |-> s.v, max |-> s.v]
    [] s.k = "Array" ->
         IF Column_len(s.v) = 0 THEN DArray(None)
         ELSE LET inner_domain == Column_domain(s.v)
              IN  IF inner_domain = Panic THEN Panic ELSE DArray(Some(inner_domain))
    [] s.k = "Map" ->
         IF Column_len(s.v) = 0 THEN DMap(None)
         ELSE LET inner_domain == Column_domain(s.v)
              IN  IF inner_domain = Panic THEN Panic
                  ELSE IF inner_domain.k = "Tuple" /\ Len(inner_domain.domains) >= 2
                       THEN DMap(Some(<<inner_domain.domains[1], inner_domain.domains[2]>>))
                       ELSE Panic
    [] s.k = "Tuple" ->
         IF data_type.k # "Tuple" THEN Panic
         ELSE LET n == IF Len(s.v) < Len(data_type.fields)
                       THEN Len(s.v) ELSE Len(data_type.fields)
                  domains == [i \in 1..n |-> ScalarRef_domain(s.v[i], data_type.fields[i])]
              IN  IF \E i \in 1..n : domains[i] = Panic THEN Panic
                  ELSE [k |-> "Tuple", domains |-> domains]
    [] s.k = "Variant" -> [k |-> "Undefined"]

\* ---------------------------------------------------------------- Nullable wrapper
\* Column::remove_nullable.
Column_remove_nullable(c) == IF c.k = "Nullable" THEN c.column ELSE c

\* A wrap that adds a level to a column that is Nullable already.
Column_wrap_nullable_always(c) ==
  CNullable(c, [i \in 1..Column_len(c) |-> TRUE])

\* Column::wrap_nullable.
Column_wrap_nullable(c) ==
  IF c.k = "Nullable" THEN c
  ELSE CNullable(c, [i \in 1..Column_len(c) |-> TRUE])

\* ---------------------------------------------------------------- build_scalar
RECURSIVE ColumnBuilder_build_scalar(_)

\* StringColumnBuilder::build_scalar: the bytes of the first row.
StringColumnBuilder_build_scalar(b) ==
  SubSeq(b.data, b.offsets[1] + 1, b.offsets[2])

\* ArrayColumnBuilder::build_scalar: the elements of the first row.
ArrayColumnBuilder_build_scalar(b) ==
  Column_slice(ColumnBuilder_build(b.builder), b.offsets[1], b.offsets[2])

\* An assertion that lets a builder of several rows through.
ColumnBuilder_build_scalar_assert_nonempty(b) == ColumnBuilder_len(b) >= 1

\* build_scalar, the assertion: the builder holds exactly one row.
ColumnBuilder_build_scalar_assert(b) == ColumnBuilder_len(b) = 1

\* ColumnBuilder::build_scalar. A Number, Boolean, Timestamp or Date builder
\* gives its first value; a Nullable builder gives Null when its validity
\* bit is unset, and its inner builder's scalar otherwise.
ColumnBuilder_build_scalar(b) ==
  IF ~ColumnBuilder_build_scalar_assert(b) THEN Panic
  ELSE CASE b.k = "Null" -> SNull
    [] b.k = "EmptyArray" -> SEmptyArray
    [] b.k = "EmptyMap" -> SEmptyMap
    [] b.k = "Number" -> SNumber(b.ty, b.vals[1])
    [] b.k = "Boolean" -> SBoolean(b.vals[1])
    [] b.k = "String" -> SString(StringColumnBuilder_build_scalar(b))
    [] b.k = "Timestamp" -> STimestamp(b.vals[1])
    [] b.k = "Date" -> SDate(b.vals[1])
    [] b.k = "Array" -> SArray(ArrayColumnBuilder_build_scalar(b))
    [] b.k = "Map" -> SMap(ArrayColumnBuilder_build_scalar(b))
    [] b.k = "Nullable" ->
         IF b.validity[1] THEN ColumnBuilder_build_scalar(b.builder) ELSE SNull
    [] b.k = "Tuple" ->
         LET fields == [i \in 1..Len(b.fields) |-> ColumnBuilder_build_scalar(b.fields[i])]
         IN  IF \E i \in 1..Len(fields) : fields[i] = Panic THEN Panic
             ELSE STuple(fields)
    [] b.k = "Variant" -> SVariant(StringColumnBuilder_build_scalar(b))

\* ---------------------------------------------------------------- ColumnIterator
\* Column::iter: the iterator is a record of its index and len; the column
\* it borrows is the one it is stepped on.
Column_iter(c) == [index |-> 0, len |-> Column_len(c)]

\* A step that yields the row and stays on it.
ColumnIterator_next_stays(self, column) ==
  IF self.index < self.len
  THEN [item |-> Column_index(column, self.index), iter |-> self]
  ELSE [item |-> None, iter |-> self]

\* ColumnIterator::next: the item, and the iterator after the call. The `?`
\* returns None, index unchanged, when the column has no row at index.
ColumnIterator_next(self, column) ==
  IF self.index < self.len
  THEN LET item == Column_index(column, self.index)
       IN  IF item = None THEN [item |-> None, iter |-> self]
           ELSE [item |-> item, iter |-> [self EXCEPT !.index = self.index + 1]]
  ELSE [item |-> None, iter |-> self]

\* ColumnIterator::size_hint.
ColumnIterator_size_hint(self) ==
  LET remain == self.len - self.index IN << remain, Some(remain) >>

\* ---------------------------------------------------------------- repeat
RECURSIVE ColumnBuilder_repeat(_, _, _)

\* ColumnBuilder::repeat. constant_bitmap(b, n) and vec![d; n] are n copies;
\* the Number, String and Array builders' repeat hold the value n times, an
\* Array builder with the offsets of n rows of the column's length.
ColumnBuilder_repeat(scalar, n, data_type) ==
  LET RECURSIVE pushes(_, _)
      pushes(b, i) ==
        IF i = 0 \/ b = Panic THEN b ELSE pushes(ColumnBuilder_push(b, scalar), i - 1)
      RECURSIVE defaults(_, _)
      defaults(b, i) ==
        IF i = 0 THEN b ELSE defaults(ColumnBuilder_push_default(b), i - 1)
      copies(x) == [i \in 1..n |-> x]
      nullable(builder, valid) ==
        IF builder = Panic THEN Panic
        ELSE [k |-> "Nullable", builder |-> builder, validity |-> copies(valid)]
      StringColumnBuilder_repeat(kind) ==
        [k |-> kind,
         data |-> [i \in 1..(n * Len(scalar.v)) |-> scalar.v[((i - 1) % Len(scalar.v)) + 1]],
         offsets |-> [i \in 1..(n + 1) |-> (i - 1) * Len(scalar.v)]]
      RECURSIVE appended(_, _)
      appended(b, i) ==
        IF i = 0 \/ b = Panic THEN b
        ELSE appended(ColumnBuilder_append_column(b, scalar.v), i - 1)
      ArrayColumnBuilder_repeat(inner) ==
        IF inner = Panic THEN Panic
        ELSE [k |-> scalar.k, builder |-> inner,
              offsets |-> [i \in 1..(n + 1) |-> (i - 1) * Column_len(scalar.v)]]
  IN  IF scalar.k # "Null" /\ data_type.k = "Nullable"
      THEN nullable(pushes(ColumnBuilder_with_capacity(data_type.inner), n), TRUE)
      ELSE CASE scalar.k = "Null" ->
                  IF data_type.k = "Null" THEN [k |-> "Null", len |-> n]
                  ELSE IF data_type.k = "Nullable"
                  THEN nullable(defaults(ColumnBuilder_with_capacity(data_type.inner), n),
                                FALSE)
                  ELSE Panic
             [] scalar.k = "EmptyArray" -> [k |-> "EmptyArray", len |-> n]
             [] scalar.k = "EmptyMap" -> [k |-> "EmptyMap", len |-> n]
             [] scalar.k = "Number" -> [k |-> "Number", ty |-> scalar.ty, vals |-> copies(scalar.v)]
             [] scalar.k = "Boolean" -> [k |-> "Boolean", vals |-> copies(scalar.v)]
             [] scalar.k = "String" -> StringColumnBuilder_repeat("String")
             [] scalar.k = "Timestamp" -> [k |-> "Timestamp", vals |-> copies(scalar.v)]
             [] scalar.k = "Date" -> [k |-> "Date", vals |-> copies(scalar.v)]
             [] scalar.k \in {"Array", "Map"} ->
                  ArrayColumnBuilder_repeat(
                    appended(ColumnBuilder_with_capacity(Column_data_type(scalar.v)), n))
             [] scalar.k = "Tuple" ->
                  IF data_type.k # "Tuple" THEN Panic
                  ELSE LET m == IF Len(scalar.v) < Len(data_type.fields)
                                THEN Len(scalar.v) ELSE Len(data_type.fields)
                           fields == [i \in 1..m |->
                                        ColumnBuilder_repeat(scalar.v[i], n, data_type.fields[i])]
                       IN  IF \E i \in 1..m : fields[i] = Panic THEN Panic
                           ELSE [k |-> "Tuple", fields |-> fields, len |-> n]
             [] scalar.k = "Variant" -> StringColumnBuilder_repeat("Variant")

\* A conversion that repeats the scalar once, whatever num_rows is.
Value_convert_to_full_column_once(self, data_type, num_rows) ==
  IF self.k = "Scalar"
  THEN LET builder == ColumnBuilder_repeat(Scalar_as_ref(self.v), 1, data_type)
       IN  IF builder = Panic THEN Panic ELSE ColumnBuilder_build(builder)
  ELSE self.v

\* Value::convert_to_full_column. A Value is a record of its variant, Scalar
\* or Column, and the value.
Value_convert_to_full_column(self, data_type, num_rows) ==
  IF self.k = "Scalar"
  THEN LET build(builder) == IF builder = Panic THEN Panic ELSE ColumnBuilder_build(builder)
       IN  build(ColumnBuilder_repeat(Scalar_as_ref(self.v), num_rows, data_type))
  ELSE self.v

\* ---------------------------------------------------------------- Deserialize
\* The outcome of a fallible call.
Ok(x) == [k |-> "Ok", v |-> x]
Err == [k |-> "Err"]

\* A string handed to the deserializer is described by what decoding finds
\* in it: whether it is base64 at all, and the column its bytes are a chunk
\* of (None when the bytes are not a chunk of exactly one column).
\* ColumnVisitor::visit_str: unwrap and expect abort on an error.
\* base64::decode gives the bytes, or an error for a string that is not
\* base64; deserialize_column gives the column, or an error for bytes that
\* are not a chunk of exactly one column.
ColumnVisitor_visit_str(v) ==
  LET base64_decode(s) == IF s.base64 THEN Ok(s.chunk) ELSE Err
      deserialize_column(b) == IF b = None THEN Err ELSE Ok(b.v)
      bytes == base64_decode(v)
  IN  IF bytes = Err THEN Panic
      ELSE LET column == deserialize_column(bytes.v)
           IN  IF column = Err THEN Panic ELSE Ok(column.v)

\* ---------------------------------------------------------------- inputs
\* The logical types the builder is created with.
Types ==
  << TNull, TEmptyArray, TEmptyMap, TInt32, TBoolean, TString, TTimestamp,
     TDate, TVariant, TNullable(TString), TNullable(TInt32), TArray(TInt32),
     TMap(TTuple(<<TInt32, TString>>)), TTuple(<<TInt32, TString>>),
     TTuple(<<TNullable(TInt32), TNull>>), TTuple(<<>>),
     TNullable(TEmptyArray) >>

Int32Column(xs) == CNumber("Int32", xs)

\* The scalars of each type that are pushed; an Array or Map scalar holds
\* the column of its elements.
ScalarsOf(ty) ==
  CASE ty = TNull -> << SNull >>
    [] ty = TEmptyArray -> << SEmptyArray >>
    [] ty = TEmptyMap -> << SEmptyMap >>
    [] ty = TInt32 -> << SInt32(1), SInt32(2), SInt32(3) >>
    [] ty = TBoolean -> << SBoolean(TRUE), SBoolean(FALSE) >>
    [] ty = TString -> << SString(<<97>>), SString(<<98>>) >>
    [] ty = TTimestamp -> << STimestamp(-5), STimestamp(7) >>
    [] ty = TDate -> << SDate(-1), SDate(2) >>
    [] ty = TVariant -> << SVariant(JSONB_NULL), SVariant(JSONB_TRUE) >>
    [] ty = TNullable(TString) -> << SNull, SString(<<97>>), SString(<<98>>) >>
    [] ty = TNullable(TInt32) -> << SNull, SInt32(1), SInt32(3) >>
    [] ty = TArray(TInt32) ->
         << SArray(Int32Column(<<1, 2>>)), SArray(Int32Column(<<3>>)),
            SArray(Int32Column(<<>>)) >>
    [] ty = TMap(TTuple(<<TInt32, TString>>)) ->
         << SMap(CTuple(<<Int32Column(<<1, 2>>), CString(<<97, 98>>, <<0, 1, 2>>)>>, 2)),
            SMap(CTuple(<<Int32Column(<<>>), CString(<<>>, <<0>>)>>, 0)) >>
    [] ty = TTuple(<<TInt32, TString>>) ->
         << STuple(<<SInt32(1), SString(<<97>>)>>),
            STuple(<<SInt32(3), SString(<<98>>)>>) >>
    [] ty = TTuple(<<TNullable(TInt32), TNull>>) ->
         << STuple(<<SInt32(2), SNull>>), STuple(<<SNull, SNull>>) >>
    [] ty = TTuple(<<>>) -> << STuple(<<>>) >>
    [] ty = TNullable(TEmptyArray) -> << SNull, SEmptyArray >>

\* The scalars compared, hashed and pushed into builders of every type: every variant, two Variant payloads of
\* one JSON value, and one that decodes to none.
Scalars ==
  << SNull, SEmptyArray, SEmptyMap, SInt32(1), SInt32(2),
     SBoolean(FALSE), SBoolean(TRUE), SString(<< >>), SString(<<97>>),
     STimestamp(1), SDate(1),
     SVariant(JSONB_NULL), SVariant(JSONB_TRUE), SVariant(JSON_TEXT_TRUE),
     SVariant(JSON_MALFORMED),
     SArray(Int32Column(<<1>>)), SArray(Int32Column(<<1, 2>>)),
     SMap(CTuple(<<Int32Column(<<1>>), CString(<<97>>, <<0, 1>>)>>, 1)),
     STuple(<<SInt32(1)>>), STuple(<<SString(<<97>>)>>), STuple(<< >>) >>

\* The scalars a builder of the type does not take: those of another
\* variant (Null is taken by a Nullable builder, and so is what its inner
\* builder takes) and the tuples of another arity.
MismatchedScalars(data_type) ==
  LET inner == IF data_type.k = "Nullable" THEN data_type.inner ELSE data_type
      fits(s) == \/ data_type.k = "Nullable" /\ s.k = "Null"
                 \/ /\ s.k = inner.k
                    /\ inner.k = "Tuple" => Len(s.v) = Len(inner.fields)
  IN  SelectSeq(Scalars, LAMBDA s : ~fits(s))

\* ---------------------------------------------------------------- state
VARIABLES
  ty,       \* the type the builder was created with
  builder,  \* the ColumnBuilder
  pushed,   \* the calls made on the builder, in order
  pc,       \* "building", "built" (build() consumed the builder) or "panicked";
            \* in the select dry run, the stage to check next or "returned"
  col,      \* the Column build() returned
  views,    \* the columns obtained from col by successive slice calls
  ranges,   \* the ranges of those slice calls
  last      \* the last call that returned a value or aborted, and its result

vars == << ty, builder, pushed, pc, col, views, ranges, last >>

NoColumn == [k |-> "NoColumn"]
\* The column the read operations act on: the last slice, or the built column.
Cur == IF views = << >> THEN col ELSE views[Len(views)]

Init ==
  /\ \E i \in 1..Len(Types) : ty = Types[i]
  /\ builder = ColumnBuilder_with_capacity(ty)
  /\ pushed = << >>
  /\ pc = "building"
  /\ col = NoColumn
  /\ views = << >>
  /\ ranges = << >>
  /\ last = [op |-> "none"]

\* builder.push(item) with a scalar of the builder's type or with one it
\* does not take. A push that aborts leaves no builder to go on with.
Push ==
  /\ pc = "building"
  /\ ColumnBuilder_len(builder) < MaxRows
  /\ LET items == ScalarsOf(ty) \o MismatchedScalars(ty)
     IN  \E i \in 1..Len(items) :
       LET item == items[i]
           r == ColumnBuilder_push(builder, item)
       IN  IF r = Panic
           THEN /\ pc' = "panicked"
                /\ last' = [op |-> "push", item |-> item, res |-> Panic]
                /\ UNCHANGED << builder, pushed >>
           ELSE /\ builder' = r
                /\ pushed' = Append(pushed, [op |-> "push", item |-> item])
                /\ last' = [op |-> "none"]
                /\ UNCHANGED pc
  /\ UNCHANGED << ty, col, views, ranges >>

\* builder.push_default().
PushDefault ==
  /\ pc = "building"
  /\ ColumnBuilder_len(builder) < MaxRows
  /\ builder' = ColumnBuilder_push_default(builder)
  /\ pushed' = Append(pushed, [op |-> "push_default"])
  /\ last' = [op |-> "none"]
  /\ UNCHANGED << ty, pc, col, views, ranges >>

\* builder.append_column(&other). The other column is built from up to two
\* scalars of the builder's type, whole or sliced past its first row, or is
\* a one-row column of another variant or arity. The rows appended are
\* logged as the scalars they were built from.
AppendColumn ==
  /\ pc = "building"
  /\ \E n \in 0..2, start \in 0..1, j \in 0..Len(Types) :
     \E rows \in [1..n -> 1..Len(ScalarsOf(ty))], t \in {IF j = 0 THEN ty ELSE Types[j]} :
       /\ start <= n
       /\ ColumnBuilder_len(builder) + (n - start) <= MaxRows
       /\ j # 0 => /\ n = 1 /\ start = 0 /\ rows[1] = 1
                   /\ \/ t.k # ty.k
                      \/ /\ t.k = "Tuple" /\ ty.k = "Tuple"
                         /\ Len(t.fields) # Len(ty.fields)
       /\ \E b0 \in {ColumnBuilder_with_capacity(t)} :
          \E b1 \in {IF n >= 1 THEN ColumnBuilder_push(b0, ScalarsOf(t)[rows[1]]) ELSE b0} :
          \E b2 \in {IF n >= 2 THEN ColumnBuilder_push(b1, ScalarsOf(t)[rows[2]]) ELSE b1} :
          \E other \in {Column_slice(ColumnBuilder_build(b2), start, n)} :
          \E r \in {ColumnBuilder_append_column(builder, other)} :
            /\ last' = [op |-> "append_column", other |-> other,
                        before |-> builder, res |-> r]
            /\ IF r = Panic
               THEN pc' = "panicked" /\ UNCHANGED << builder, pushed >>
               ELSE /\ builder' = r
                    /\ pushed' = pushed \o
                         [i \in 1..(n - start) |->
                            [op |-> "push", item |-> ScalarsOf(t)[rows[start + i]]]]
                    /\ UNCHANGED pc
  /\ UNCHANGED << ty, col, views, ranges >>

\* ColumnBuilder::repeat(&scalar, n, &ty) in place of with_capacity: the
\* builder starts with n rows, logged as n pushes of the scalar.
Repeat ==
  /\ pc = "building"
  /\ pushed = << >>
  /\ \E i \in 1..Len(ScalarsOf(ty)), n \in 0..MaxRows :
       \E r \in {ColumnBuilder_repeat(ScalarsOf(ty)[i], n, ty)} :
         /\ r # Panic
         /\ builder' = r
         /\ pushed' = [row \in 1..n |-> [op |-> "push", item |-> ScalarsOf(ty)[i]]]
  /\ last' = [op |-> "none"]
  /\ UNCHANGED << ty, pc, col, views, ranges >>

\* value.convert_to_full_column(&ty, n): of a scalar of the type, which
\* repeats it in a new builder and builds, or of the column the builder
\* holds so far.
ConvertToFullColumn ==
  /\ pc = "building"
  /\ \E n \in 0..MaxRows,
        value \in {[k |-> "Column", v |-> ColumnBuilder_build(builder)]}
                  \cup {[k |-> "Scalar", v |-> ScalarsOf(ty)[i]] :
                          i \in 1..Len(ScalarsOf(ty))} :
       /\ value.k = "Scalar" => pushed = << >>
       /\ \E res \in {Value_convert_to_full_column(value, ty, n)} :
            /\ last' = [op |-> "convert_to_full_column", value |-> value, n |-> n]
            /\ IF res = Panic
               THEN pc' = "panicked" /\ UNCHANGED << pushed, col >>
               ELSE /\ pc' = "built"
                    /\ col' = res
                    /\ pushed' = IF value.k = "Column" THEN pushed
                                 ELSE [row \in 1..n |-> [op |-> "push", item |-> value.v]]
  /\ UNCHANGED builder
  /\ UNCHANGED << ty, views, ranges >>

\* builder.build().
Build ==
  /\ pc = "building"
  /\ pc' = "built"
  /\ col' = ColumnBuilder_build(builder)
  /\ last' = [op |-> "none"]
  /\ UNCHANGED << ty, builder, pushed, views, ranges >>

\* Cur.slice(start..end), at most twice in a row. The built column is sliced
\* by every range, in bounds or not (an out-of-range slice aborts); a slice
\* is sliced again by the ranges inside it. A read leaves the columns as
\* they are and replaces last, so a slice or a read after a read is the
\* state of the same call before it: slices and reads are made on the state
\* the column was built or sliced in.
Slice ==
  /\ pc = "built"
  /\ Len(views) < 2
  /\ last.op \in {"none", "convert_to_full_column"}
  /\ \E start \in 0..(MaxRows + 1), end \in 0..(MaxRows + 1) :
       LET r == Column_slice(Cur, start, end)
       IN  /\ views # << >> => start <= end /\ end <= Column_len(Cur)
           /\ ranges' = Append(ranges, << start, end >>)
           /\ IF r = Panic
              THEN pc' = "panicked" /\ UNCHANGED views
              ELSE views' = Append(views, r) /\ UNCHANGED pc
  /\ last' = [op |-> "none"]
  /\ UNCHANGED << ty, builder, pushed, col >>

\* col.index(row).
Index ==
  /\ pc = "built"
  /\ views = << >>
  /\ last.op \in {"none", "convert_to_full_column"}
  /\ \E row \in 0..(MaxRows + 1) :
       last' = [op |-> "index", row |-> row, res |-> Column_index(col, row)]
  /\ UNCHANGED << ty, builder, pushed, pc, col, views, ranges >>

\* col.domain(); on a column without rows it aborts.
DomainOf ==
  /\ pc = "built"
  /\ views = << >>
  /\ last.op \in {"none", "convert_to_full_column"}
  /\ last' = [op |-> "domain", res |-> Column_domain(col)]
  /\ UNCHANGED << ty, builder, pushed, pc, col, views, ranges >>

\* Column::from_arrow(col.as_arrow(), col.data_type()).
RoundTrip ==
  /\ pc = "built"
  /\ views = << >>
  /\ last.op \in {"none", "convert_to_full_column"}
  /\ \E overflow_checks \in BOOLEAN :
       LET arrow_col == Column_as_arrow(col)
       IN  last' = [op |-> "arrow",
                    res |-> IF arrow_col = Panic THEN Panic
                            ELSE Column_from_arrow(arrow_col, Column_data_type(col),
                                                   overflow_checks)]
  /\ UNCHANGED << ty, builder, pushed, pc, col, views, ranges >>

\* a.semantically_eq(&b) and b.semantically_eq(&a): the built column with
\* the current column (itself, or a slice of it), the built column with a
\* scalar of its type, or, next to a column without rows, two scalars.
SemanticallyEq ==
  /\ pc = "built"
  /\ Len(views) <= 1
  /\ last.op \in {"none", "convert_to_full_column"}
  /\ \E i \in 0..Len(ScalarsOf(ty)), j \in 0..Len(ScalarsOf(ty)) :
       LET a == IF i = 0 THEN [k |-> "Column", v |-> col]
                ELSE [k |-> "Scalar", v |-> ScalarsOf(ty)[i]]
           b == IF j = 0 THEN [k |-> "Column", v |-> Cur]
                ELSE [k |-> "Scalar", v |-> ScalarsOf(ty)[j]]
       IN  /\ j # 0 => views = << >>
           /\ (i # 0 /\ j # 0) => Column_len(col) = 0
           /\ i # 0 => j # 0
           /\ last' = [op |-> "semantically_eq", a |-> a, b |-> b,
                       res |-> ValueRef_semantically_eq(a, b),
                       rev |-> ValueRef_semantically_eq(b, a)]
  /\ UNCHANGED << ty, builder, pushed, pc, col, views, ranges >>

\* iter() on the column or on a slice of it, and next() on the iterator
\* until two calls past the end of the column: last.calls holds, per call,
\* the item and the iterator after the call.
Iter ==
  /\ pc = "built"
  /\ Len(views) <= 1
  /\ last.op \in {"none", "convert_to_full_column"}
  /\ LET RECURSIVE calls(_, _)
         calls(it, n) ==
           IF n = 0 THEN << >>
           ELSE LET r == << ColumnIterator_next(it, Cur) >>
                IN  r \o calls(r[1].iter, n - 1)
     IN  \E it \in {Column_iter(Cur)} :
           last' = [op |-> "iter", iter |-> it, calls |-> calls(it, it.len + 2)]
  /\ UNCHANGED << ty, builder, pushed, pc, col, views, ranges >>

\* col.wrap_nullable(), and remove_nullable() on what it returns.
WrapNullable ==
  /\ pc = "built"
  /\ views = << >>
  /\ last.op \in {"none", "convert_to_full_column"}
  /\ LET res == Column_wrap_nullable(col)
     IN  last' = [op |-> "wrap_nullable", res |-> res,
                  back |-> Column_remove_nullable(res)]
  /\ UNCHANGED << ty, builder, pushed, pc, col, views, ranges >>

\* col.remove_nullable().
RemoveNullable ==
  /\ pc = "built"
  /\ views = << >>
  /\ last.op \in {"none", "convert_to_full_column"}
  /\ last' = [op |-> "remove_nullable", res |-> Column_remove_nullable(col)]
  /\ UNCHANGED << ty, builder, pushed, pc, col, views, ranges >>

\* builder.build_scalar(): it consumes the builder, or aborts.
BuildScalar ==
  /\ pc = "building"
  /\ LET res == ColumnBuilder_build_scalar(builder)
     IN  /\ last' = [op |-> "build_scalar", res |-> res]
         /\ pc' = IF res = Panic THEN "panicked" ELSE "consumed"
  /\ UNCHANGED << ty, builder, pushed, col, views, ranges >>

Next ==
  \/ Push \/ PushDefault \/ AppendColumn \/ Build \/ Slice \/ Index \/ DomainOf
  \/ RoundTrip \/ WrapNullable \/ RemoveNullable \/ BuildScalar
  \/ SemanticallyEq \/ Repeat \/ ConvertToFullColumn \/ Iter

Spec == Init /\ [][Next]_vars

\* ---------------------------------------------------------------- scalar operations
\* Two scalars are drawn; the builder variables stay as created.
InitScalar ==
  /\ \E i \in 1..Len(Types) : ty = Types[i]
  /\ builder = ColumnBuilder_with_capacity(ty)
  /\ pushed = << >>
  /\ pc = "building"
  /\ col = NoColumn
  /\ views = << >>
  /\ ranges = << >>
  /\ \E i \in 1..Len(Scalars), j \in 1..Len(Scalars) :
       last = [op |-> "none", a |-> Scalars[i], b |-> Scalars[j]]

\* a.partial_cmp(&b) and a == b, on the two Scalars and on their ScalarRefs.
PartialCmp ==
  /\ LET a == last.a
         b == last.b
     IN  last' = [op |-> "partial_cmp", a |-> a, b |-> b,
                  res |-> Scalar_partial_cmp(a, b),
                  eq |-> Scalar_eq(a, b),
                  ref |-> ScalarRef_partial_cmp(Scalar_as_ref(a), Scalar_as_ref(b)),
                  ref_eq |-> ScalarRef_eq(Scalar_as_ref(a), Scalar_as_ref(b))]
  /\ UNCHANGED << ty, builder, pushed, pc, col, views, ranges >>

\* a.cmp(&b), on the two Scalars and on their ScalarRefs.
OrdCmp ==
  /\ LET a == last.a
         b == last.b
     IN  last' = [op |-> "cmp", a |-> a, b |-> b,
                  res |-> Scalar_cmp(a, b),
                  ref |-> ScalarRef_cmp(Scalar_as_ref(a), Scalar_as_ref(b))]
  /\ UNCHANGED << ty, builder, pushed, pc, col, views, ranges >>

\* a.hash(state) and b.hash(state), on the two Scalars and on their ScalarRefs.
Hash ==
  /\ LET a == last.a
         b == last.b
     IN  last' = [op |-> "hash", a |-> a, b |-> b,
                  ha |-> Scalar_hash(a), hb |-> Scalar_hash(b),
                  ra |-> ScalarRef_hash(Scalar_as_ref(a)),
                  rb |-> ScalarRef_hash(Scalar_as_ref(b))]
  /\ UNCHANGED << ty, builder, pushed, pc, col, views, ranges >>

\* s.domain(&declared), for a scalar of the drawn type or Null, and the
\* type itself or the type made Nullable as the declared type.
ScalarDomain ==
  /\ \E i \in 0..Len(ScalarsOf(ty)), nullable \in BOOLEAN :
       LET s == IF i = 0 THEN SNull ELSE ScalarsOf(ty)[i]
           declared == IF nullable /\ ty.k # "Nullable" THEN TNullable(ty) ELSE ty
       IN  last' = [op |-> "scalar_domain", a |-> last.a, b |-> last.b,
                    s |-> s, declared |-> declared,
                    res |-> ScalarRef_domain(s, declared)]
  /\ UNCHANGED << ty, builder, pushed, pc, col, views, ranges >>

\* The strings handed to the deserializer: a serialized column, bytes that
\* are no chunk, and a string that is not base64.
SerializedStrs ==
  << [base64 |-> TRUE, chunk |-> Some(Int32Column(<<1, 2>>))],
     [base64 |-> TRUE, chunk |-> Some(CNull(1))],
     [base64 |-> TRUE, chunk |-> None],
     [base64 |-> FALSE, chunk |-> None] >>

\* Column::deserialize on a string.
Deserialize ==
  /\ \E i \in 1..Len(SerializedStrs) :
       last' = [op |-> "deserialize", a |-> last.a, b |-> last.b,
                input |-> SerializedStrs[i],
                res |-> ColumnVisitor_visit_str(SerializedStrs[i])]
  /\ UNCHANGED << ty, builder, pushed, pc, col, views, ranges >>

NextScalar == PartialCmp \/ OrdCmp \/ Hash \/ ScalarDomain \/ Deserialize

SpecScalar == InitScalar /\ [][NextScalar]_vars

\* ---------------------------------------------------------------- external timestamps
\* Values of an external Int64Array, written in decimal in groups of three
\* digits: small ones, the largest and smallest number of seconds whose
\* microseconds fit i64 and their neighbours, and i64::MAX and i64::MIN.
I64Values ==
  LET RECURSIVE mag(_)
      mag(gs) == IF gs = << >> THEN [i \in 1..8 |-> 0]
                 ELSE mul_add(mag(SubSeq(gs, 1, Len(gs) - 1)), 1000, gs[Len(gs)])
      I64(neg, groups) == IF neg THEN wrapping_neg(mag(groups)) ELSE mag(groups)
  IN  << I64(FALSE, << 0 >>), I64(FALSE, << 1 >>), I64(TRUE, << 1 >>),
         I64(FALSE, << 1, 999 >>), I64(TRUE, << 1, 999 >>),
         I64(FALSE, << 9, 223, 372, 36, 854 >>), I64(FALSE, << 9, 223, 372, 36, 855 >>),
         I64(TRUE, << 9, 223, 372, 36, 854 >>), I64(TRUE, << 9, 223, 372, 36, 855 >>),
         I64(FALSE, << 9, 223, 372, 36, 854, 775, 807 >>),
         I64(TRUE, << 9, 223, 372, 36, 854, 775, 808 >>) >>

\* An external timestamp array of one or two values in some unit is drawn,
\* and the build; the builder variables stay as created.
InitFromArrow ==
  /\ ty = TTimestamp
  /\ builder = ColumnBuilder_with_capacity(ty)
  /\ pushed = << >>
  /\ pc = "building"
  /\ col = NoColumn
  /\ views = << >>
  /\ ranges = << >>
  /\ \E unit \in {"Second", "Millisecond", "Microsecond", "Nanosecond"},
        i \in 1..Len(I64Values), j \in 0..Len(I64Values), overflow_checks \in BOOLEAN :
       last = [op |-> "none",
               arrow_col |-> [a |-> "PrimitiveArray",
                              data_type |-> ArrowType("Timestamp", unit),
                              values |-> IF j = 0 THEN << I64Values[i] >>
                                         ELSE << I64Values[i], I64Values[j] >>,
                              validity |-> None],
               overflow_checks |-> overflow_checks]

\* Column::from_arrow(arrow_col, &DataType::Timestamp).
FromArrow ==
  /\ last.op = "none"
  /\ last' = [op |-> "from_arrow", arrow_col |-> last.arrow_col,
              overflow_checks |-> last.overflow_checks,
              res |-> Column_from_arrow(last.arrow_col, ty, last.overflow_checks)]
  /\ UNCHANGED << ty, builder, pushed, pc, col, views, ranges >>

SpecFromArrow == InitFromArrow /\ [][FromArrow]_vars

\* ---------------------------------------------------------------- select dry run
\* An Expression is the field it produces and the columns it reads; a
\* DataBlock without rows is its schema, the sequence of its field names;
\* an error is its cause and the messages added to it.

\* dry_run_exprs and dry_run_exprs_ref: the block of the expressions'
\* fields, or the error of the first expression that has no field in the
\* block's schema. Expression::to_data_field fails when the expression
\* reads a column the schema does not have.
dry_run_exprs(exprs, data) ==
  LET schema == {data[i] : i \in 1..Len(data)}
      to_data_field(expr) == IF expr.columns \subseteq schema THEN Ok(expr.field)
                             ELSE [k |-> "Err", cause |-> expr, message |-> << >>]
      errs == {i \in 1..Len(exprs) : to_data_field(exprs[i]).k = "Err"}
  IN  IF errs # {} THEN to_data_field(exprs[CHOOSE i \in errs : \A j \in errs : i <= j])
      ELSE Ok([i \in 1..Len(exprs) |-> to_data_field(exprs[i]).v])

\* dry_run_expr: the block of the one expression's field.
dry_run_expr(expr, data) == dry_run_exprs(<< expr >>, data)

\* The expressions of a select: one makes b of the source column a, one
\* makes c of b.
DryRunExprs ==
  << [field |-> "b", columns |-> {"a"}], [field |-> "c", columns |-> {"b"}] >>

\* verify_with_dry_run(schema, state) is entered: the source schema has the
\* column a, the QueryAnalyzeState is drawn, the data block is the empty
\* block of the schema. pc is the stage to check next, last.evaluated the
\* dry runs made so far with their results, last.res the value returned.
\* The builder variables stay as created.
InitDryRun ==
  /\ ty = TNull
  /\ builder = ColumnBuilder_with_capacity(ty)
  /\ pushed = << >>
  /\ col = NoColumn
  /\ views = << >>
  /\ ranges = << >>
  /\ pc = "filter"
  /\ LET opt == {None} \cup {Some(DryRunExprs[i]) : i \in 1..Len(DryRunExprs)}
         list == {<< >>} \cup {<< DryRunExprs[i] >> : i \in 1..Len(DryRunExprs)}
     IN  \E state \in [filter : opt, before_group_by_expressions : list,
                        group_by_expressions : list, aggregate_expressions : list,
                        expressions : list, having : opt,
                        order_by_expressions : list, projection_expressions : list] :
           last = [op |-> "verify_with_dry_run", state |-> state,
                   data_block |-> << "a" >>, evaluated |-> << >>, res |-> None]

\* The filter stage: an error returns with the stage's message; the data block stays.
DryRunFilter ==
  /\ pc = "filter"
  /\ IF last.state.filter # None
     THEN LET r == dry_run_expr(last.state.filter.v, last.data_block)
              log == Append(last.evaluated, [stage |-> "filter", res |-> r])
          IN  IF r.k = "Err"
              THEN /\ pc' = "returned"
                   /\ last' = [last EXCEPT
                        !.evaluated = log,
                        !.res = [r EXCEPT !.message = Append(@, " (while in select filter)")]]
              ELSE /\ pc' = "before_group_by"
                   /\ last' = [last EXCEPT !.evaluated = log]
     ELSE /\ pc' = "before_group_by"
          /\ UNCHANGED last
  /\ UNCHANGED << ty, builder, pushed, col, views, ranges >>

\* The before-group-by stage: a success replaces the data block.
DryRunBeforeGroupBy ==
  /\ pc = "before_group_by"
  /\ IF last.state.before_group_by_expressions # << >>
     THEN LET r == dry_run_exprs(last.state.before_group_by_expressions, last.data_block)
              log == Append(last.evaluated, [stage |-> "before_group_by", res |-> r])
          IN  IF r.k = "Err"
              THEN /\ pc' = "returned"
                   /\ last' = [last EXCEPT
                        !.evaluated = log,
                        !.res = [r EXCEPT !.message = Append(@, " (while in select before group by)")]]
              ELSE /\ pc' = "group_by"
                   /\ last' = [last EXCEPT !.data_block = r.v, !.evaluated = log]
     ELSE /\ pc' = "group_by"
          /\ UNCHANGED last
  /\ UNCHANGED << ty, builder, pushed, col, views, ranges >>

\* The group-by stage, on the group-by expressions followed by the aggregates:
\* a success replaces the data block.
DryRunGroupBy ==
  /\ pc = "group_by"
  /\ IF last.state.group_by_expressions # << >> \/ last.state.aggregate_expressions # << >>
     THEN LET r == dry_run_exprs(last.state.group_by_expressions \o last.state.aggregate_expressions,
                                last.data_block)
              log == Append(last.evaluated, [stage |-> "group_by", res |-> r])
          IN  IF r.k = "Err"
              THEN /\ pc' = "returned"
                   /\ last' = [last EXCEPT
                        !.evaluated = log,
                        !.res = [r EXCEPT !.message = Append(@, " (while in select group by)")]]
              ELSE /\ pc' = "expressions"
                   /\ last' = [last EXCEPT !.data_block = r.v, !.evaluated = log]
     ELSE /\ pc' = "expressions"
          /\ UNCHANGED last
  /\ UNCHANGED << ty, builder, pushed, col, views, ranges >>

\* An expressions stage whose error has the same message with and without
\* an order by.
DryRunExpressions_before_projection ==
  /\ pc = "expressions"
  /\ IF last.state.expressions # << >>
     THEN LET r == dry_run_exprs(last.state.expressions, last.data_block)
              log == Append(last.evaluated, [stage |-> "expressions", res |-> r])
              message == " (while in select before projection)"
          IN  IF r.k = "Err"
              THEN /\ pc' = "returned"
                   /\ last' = [last EXCEPT
                        !.evaluated = log,
                        !.res = [r EXCEPT !.message = Append(@, message)]]
              ELSE /\ pc' = "having"
                   /\ last' = [last EXCEPT !.data_block = r.v, !.evaluated = log]
     ELSE /\ pc' = "having"
          /\ UNCHANGED last
  /\ UNCHANGED << ty, builder, pushed, col, views, ranges >>

\* The expressions stage: a success replaces the data block; the message of
\* an error tells whether an order by follows.
DryRunExpressions ==
  /\ pc = "expressions"
  /\ IF last.state.expressions # << >>
     THEN LET r == dry_run_exprs(last.state.expressions, last.data_block)
              log == Append(last.evaluated, [stage |-> "expressions", res |-> r])
              message == IF last.state.order_by_expressions = << >>
                         THEN " (while in select before projection)"
                         ELSE " (while in select before order by)"
          IN  IF r.k = "Err"
              THEN /\ pc' = "returned"
                   /\ last' = [last EXCEPT
                        !.evaluated = log,
                        !.res = [r EXCEPT !.message = Append(@, message)]]
              ELSE /\ pc' = "having"
                   /\ last' = [last EXCEPT !.data_block = r.v, !.evaluated = log]
     ELSE /\ pc' = "having"
          /\ UNCHANGED last
  /\ UNCHANGED << ty, builder, pushed, col, views, ranges >>

\* The having stage: an error returns with the stage's message; the data block stays.
DryRunHaving ==
  /\ pc = "having"
  /\ IF last.state.having # None
     THEN LET r == dry_run_expr(last.state.having.v, last.data_block)
              log == Append(last.evaluated, [stage |-> "having", res |-> r])
          IN  IF r.k = "Err"
              THEN /\ pc' = "returned"
                   /\ last' = [last EXCEPT
                        !.evaluated = log,
                        !.res = [r EXCEPT !.message = Append(@, " (while in select having)")]]
              ELSE /\ pc' = "order_by"
                   /\ last' = [last EXCEPT !.evaluated = log]
     ELSE /\ pc' = "order_by"
          /\ UNCHANGED last
  /\ UNCHANGED << ty, builder, pushed, col, views, ranges >>

\* The order-by stage: the data block stays.
DryRunOrderBy ==
  /\ pc = "order_by"
  /\ IF last.state.order_by_expressions # << >>
     THEN LET r == dry_run_exprs(last.state.order_by_expressions, last.data_block)
              log == Append(last.evaluated, [stage |-> "order_by", res |-> r])
          IN  IF r.k = "Err"
              THEN /\ pc' = "returned"
                   /\ last' = [last EXCEPT
                        !.evaluated = log,
                        !.res = [r EXCEPT !.message = Append(@, " (while in select order by)")]]
              ELSE /\ pc' = "projection"
                   /\ last' = [last EXCEPT !.evaluated = log]
     ELSE /\ pc' = "projection"
          /\ UNCHANGED last
  /\ UNCHANGED << ty, builder, pushed, col, views, ranges >>

\* The projection stage, and the return of the data block.
DryRunProjection ==
  /\ pc = "projection"
  /\ IF last.state.projection_expressions # << >>
     THEN LET r == dry_run_exprs(last.state.projection_expressions, last.data_block)
              log == Append(last.evaluated, [stage |-> "projection", res |-> r])
          IN  IF r.k = "Err"
              THEN /\ pc' = "returned"
                   /\ last' = [last EXCEPT
                        !.evaluated = log,
                        !.res = [r EXCEPT !.message = Append(@, " (while in select projection)")]]
              ELSE /\ pc' = "returned"
                   /\ last' = [last EXCEPT !.evaluated = log, !.res = Ok(last.data_block)]
     ELSE /\ pc' = "returned"
          /\ last' = [last EXCEPT !.res = Ok(last.data_block)]
  /\ UNCHANGED << ty, builder, pushed, col, views, ranges >>

SpecDryRun ==
  InitDryRun /\ [][DryRunFilter \/ DryRunBeforeGroupBy \/ DryRunGroupBy \/ DryRunExpressions
                   \/ DryRunHaving \/ DryRunOrderBy \/ DryRunProjection]_vars

\* ---------------------------------------------------------------- claims
\* The rows of the built column that a push call (not push_default) wrote.
PushedRows == {i \in 1..Len(pushed) : pushed[i].op = "push"}

\* C1. Builder law: the column build() returns has one row per call made on
\* the builder, and row i reads back, by index, as a scalar equal to the one
\* the i-th push was given (Null included, for a Nullable builder).
C1_BuilderLaw ==
  pc = "built" =>
    /\ Column_len(col) = Len(pushed)
    /\ \A i \in PushedRows :
         LET r == Column_index(col, i - 1)
         IN  r.k = "Some" /\ ScalarRef_eq(r.v, pushed[i].item)

\* A built tuple column of MaxRows pushed rows, a null among its fields.
C1_Witness ==
  /\ pc = "built"
  /\ ty = TTuple(<<TNullable(TInt32), TNull>>)
  /\ Len(pushed) = MaxRows
  /\ PushedRows = 1..MaxRows
  /\ pushed[1].item = STuple(<<SNull, SNull>>)
  /\ pushed[2].item = STuple(<<SInt32(2), SNull>>)

\* C2. index is bounds-checked for every variant: None for every row at or
\* past len(), Some value for every row below it.
C2_IndexBoundsChecked ==
  last.op = "index" =>
    IF last.row >= Column_len(col) THEN last.res = None ELSE last.res.k = "Some"

\* The slices taken so far, each with the column it was taken from.
SliceParent(j) == IF j = 1 THEN col ELSE views[j - 1]

\* C3. Slice composition: for in-bounds ranges a..b of c and x..y of the
\* slice, c.slice(a..b).slice(x..y) == c.slice(a+x..a+y), zero-length slices
\* included.
C3_SliceComposition ==
  (pc = "built" /\ Len(views) = 2) =>
    LET a == ranges[1][1]
        b == ranges[1][2]
        x == ranges[2][1]
        y == ranges[2][2]
        direct == Column_slice(col, a + x, a + y)
    IN  (a <= b /\ b <= Column_len(col) /\ x <= y /\ y <= b - a) =>
          direct # Panic /\ Column_eq(views[2], direct)

\* A proper slice of a proper slice, neither starting at row 0.
C3_Witness ==
  /\ pc = "built"
  /\ ty = TNullable(TString)
  /\ Len(views) = 2
  /\ ranges = << <<1, 3>>, <<1, 2>> >>
  /\ Column_len(views[2]) = 1

\* A zero-length slice of a proper slice.
C3_WitnessEmpty ==
  /\ pc = "built"
  /\ Len(views) = 2
  /\ ranges = << <<0, 2>>, <<1, 1>> >>

\* C4. A slice by a non-empty in-bounds range start..end has end - start
\* rows, row i being row start + i of the sliced column; a Tuple slice has
\* len end - start and every field sliced by the same range.
C4_SliceRows ==
  \A j \in 1..Len(views) :
    LET c == SliceParent(j)
        v == views[j]
        start == ranges[j][1]
        end == ranges[j][2]
    IN  start < end =>
          /\ Column_len(v) = end - start
          /\ \A i \in 0..(end - start - 1) :
               LET r == Column_index(v, i)
                   o == Column_index(c, start + i)
               IN  r.k = "Some" /\ o.k = "Some" /\ ScalarRef_eq(r.v, o.v)
          /\ c.k = "Tuple" =>
               /\ v.k = "Tuple"
               /\ v.len = end - start
               /\ Len(v.fields) = Len(c.fields)
               /\ \A f \in 1..Len(c.fields) :
                    /\ Column_len(v.fields[f]) = end - start
                    /\ \A i \in 0..(end - start - 1) :
                         Column_index(v.fields[f], i) = Column_index(c.fields[f], start + i)

\* A two-row slice of a three-row tuple column, from row 1.
C4_Witness ==
  /\ pc = "built"
  /\ ty = TTuple(<<TInt32, TString>>)
  /\ Len(views) = 1
  /\ ranges = << <<1, 3>> >>
  /\ views[1].len = 2

\* C5. slice aborts whenever range.end > len(), whatever range.start is
\* (empty and reversed ranges included), and returns no column.
C5_SliceOutOfRangePanics ==
  (Len(ranges) >= 1 /\ ranges[1][2] > Column_len(col)) =>
    pc = "panicked" /\ views = << >>

\* A reversed range past the end of a one-row column aborted the slice.
C5_Witness ==
  /\ pc = "panicked"
  /\ ranges = << <<3, 2>> >>
  /\ Column_len(col) = 1

\* C6. A slice by an empty range (start >= end, end <= len()) is the
\* zero-row column of the column's logical type.
C6_EmptySliceKeepsType ==
  \A j \in 1..Len(ranges) :
    (ranges[j][1] >= ranges[j][2] /\ ranges[j][2] <= Column_len(SliceParent(j))) =>
      /\ Len(views) >= j
      /\ Column_len(views[j]) = 0
      /\ Column_data_type(views[j]) = ty
      /\ Column_data_type(views[j]) = Column_data_type(SliceParent(j))
      /\ views[j] = finish_to_column(ty)

\* slice(1..1) on a three-row Nullable(String) column.
C6_Witness ==
  /\ pc = "built"
  /\ ty = TNullable(TString)
  /\ Column_len(col) = MaxRows
  /\ ranges = << <<1, 1>> >>
  /\ Len(views) = 1

\* C7. Nullable semantics: in the column built by a Nullable builder, a row
\* pushed as Null (or by push_default) reads back as Null, whatever
\* placeholder the inner builder holds, and a row pushed as a non-null
\* scalar reads back as that scalar.
C7_NullableSemantics ==
  (pc = "built" /\ ty.k = "Nullable") =>
    \A i \in 1..Len(pushed) :
      LET r == Column_index(col, i - 1)
          null == IF pushed[i].op = "push_default" THEN TRUE
                  ELSE pushed[i].item = SNull
      IN  IF null THEN r = Some(SNull)
          ELSE r.k = "Some" /\ ScalarRef_eq(r.v, pushed[i].item)

\* Null, 3 and a default pushed into a Nullable(Int32) builder: the inner
\* column holds the placeholder 0 at the null rows.
C7_Witness ==
  /\ pc = "built"
  /\ ty = TNullable(TInt32)
  /\ pushed = << [op |-> "push", item |-> SNull],
                 [op |-> "push", item |-> SInt32(3)],
                 [op |-> "push_default"] >>
  /\ col.column.vals = << 0, 3, 0 >>

\* The built column and its slices.
Columns == << col >> \o views

\* C8. Domain containment: every row of a non-empty Number, Date or
\* Timestamp column lies between the domain's min and max; every row of a
\* non-empty String column is at least min and, max being Some, at most
\* max; Int32 rows [1, 2, 3] have the domain {min: 1, max: 3}.
C8_DomainContainment ==
  /\ pc = "built" =>
       \A n \in 1..Len(Columns) :
         LET c == Columns[n]
             d == Column_domain(c)
         IN  (Column_len(c) > 0 /\ c.k \in {"Number", "Date", "Timestamp", "String"}) =>
               /\ d.k = c.k
               /\ \A r \in 0..(Column_len(c) - 1) :
                    LET s == Column_index(c, r).v
                    IN  IF c.k = "String"
                        THEN /\ bytes_le(d.min, s.v)
                             /\ d.max # None => bytes_le(s.v, d.max.v)
                        ELSE d.min <= s.v /\ s.v <= d.max
  /\ (last.op = "domain" /\ ty = TInt32
        /\ pushed = [i \in 1..3 |-> [op |-> "push", item |-> SInt32(i)]]) =>
       last.res = DNumber("Int32", 1, 3)

\* domain() of the String rows "b", "a", "b".
C8_Witness ==
  /\ last.op = "domain"
  /\ ty = TString
  /\ pushed = << [op |-> "push", item |-> SString(<<98>>)],
                 [op |-> "push", item |-> SString(<<97>>)],
                 [op |-> "push", item |-> SString(<<98>>)] >>
  /\ last.res = DString(<<97>>, Some(<<98>>))

\* domain() of the Int32 rows 1, 2, 3.
C8_WitnessInt32 ==
  /\ last.op = "domain"
  /\ ty = TInt32
  /\ pushed = [i \in 1..3 |-> [op |-> "push", item |-> SInt32(i)]]

\* The non-null scalars pushed into the builder, in order.
PushedNonNull ==
  LET keep(e) == IF e.op = "push_default" THEN FALSE ELSE e.item # SNull
  IN  SelectSeq(pushed, keep)

\* C9. Nullable(String) built from "a", Null, "b": validity
\* [true, false, true], index(1) is Null, and the domain has has_null true
\* and the inner domain {min: "a", max: Some("b")}; in general the inner
\* domain is the min/max over the values pushed as non-null, and has_null
\* holds exactly when some row is null.
C9_NullableDomain ==
  (last.op = "domain" /\ ty = TNullable(TString) /\ Len(PushedNonNull) > 0) =>
    LET rows == [i \in 1..Len(PushedNonNull) |-> PushedNonNull[i].item.v]
        mm == minmax_bytes(rows)
    IN  /\ last.res = DNullable(Len(PushedNonNull) < Len(pushed),
                                Some(DString(mm.min, Some(mm.max))))
        /\ \A i \in 1..Len(pushed) :
             col.validity[i] = (Column_index(col, i - 1) # Some(SNull))

\* The Int32 elements of the rows pushed into an Array(Int32) builder, flattened.
RECURSIVE FlattenPushed(_)
FlattenPushed(n) ==
  IF n = 0 THEN << >>
  ELSE FlattenPushed(n - 1) \o
         (IF pushed[n].op = "push" THEN pushed[n].item.v.vals ELSE << >>)

C11_CrossVariantUnordered ==
  (last.op = "partial_cmp" /\ last.a.k # last.b.k) =>
    /\ last.res = "None" /\ ~last.eq
    /\ last.ref = "None" /\ ~last.ref_eq
    /\ Scalar_partial_cmp(last.b, last.a) = "None"
    /\ ~Scalar_eq(last.b, last.a)

\* Int32 1 compared with the String "a".
C11_Witness ==
  /\ last.op = "partial_cmp"
  /\ last.a.k = "Number" /\ last.a.v = 1
  /\ last.b.k = "String" /\ last.b.v = <<97>>
  /\ last.res = "None"

\* C12. Ord::cmp on Scalar and on ScalarRef is partial_cmp's ordering when
\* there is one and Equal when there is none (a cross-variant pair, or a
\* Variant pair whose JSON comparison fails), so cmp can be Equal for two
\* scalars that are not ==.
C12_OrdFallsBackToEqual ==
  last.op = "cmp" =>
    LET p == Scalar_partial_cmp(last.a, last.b)
        r == ScalarRef_partial_cmp(Scalar_as_ref(last.a), Scalar_as_ref(last.b))
    IN  /\ last.res = (IF p = "None" THEN "Equal" ELSE p)
        /\ last.ref = (IF r = "None" THEN "Equal" ELSE r)
        /\ (last.a.k # last.b.k) => (last.res = "Equal" /\ last.ref = "Equal")
        /\ (last.a.k = "Variant" /\ last.b.k = "Variant"
              /\ jsonb_compare(last.a.v, last.b.v) = "None") =>
             (last.res = "Equal" /\ last.ref = "Equal" /\ ~Scalar_eq(last.a, last.b))

\* cmp is Equal for a malformed Variant payload and the JSONB true, which
\* are not ==.
C12_Witness ==
  /\ last.op = "cmp"
  /\ last.a.k = "Variant" /\ last.a.v = JSON_MALFORMED
  /\ last.b.k = "Variant" /\ last.b.v = JSONB_TRUE
  /\ last.res = "Equal" /\ last.ref = "Equal"
  /\ ~Scalar_eq(last.a, last.b)

\* C13. Hashing is consistent with equality: two ScalarRefs (and Scalars)
\* that are == hash alike, Variant, Array, Map and Tuple included, and a
\* Scalar hashes as its ScalarRef.
C13_HashConsistentWithEq ==
  last.op = "hash" =>
    /\ last.ha = last.ra /\ last.hb = last.rb
    /\ ScalarRef_eq(Scalar_as_ref(last.a), Scalar_as_ref(last.b)) => last.ra = last.rb
    /\ Scalar_eq(last.a, last.b) => last.ha = last.hb

\* C14. External-format round trip: from_arrow(c.as_arrow(), c.data_type())
\* is a column == c, with the same length, validity bits and offsets, for
\* every column.
C14_ArrowRoundTrip ==
  last.op = "arrow" =>
    /\ last.res # Panic
    /\ Column_eq(last.res, col)
    /\ Column_len(last.res) = Column_len(col)
    /\ col.k = "Nullable" => last.res.validity = col.validity
    /\ col.k \in {"String", "Variant", "Array", "Map"} => last.res.offsets = col.offsets

\* C15. Deserializing a Column from malformed input (not base64, or bytes
\* that are no one-column chunk) gives an error result, never an abort.
C15_DeserializeMalformedIsError ==
  last.op = "deserialize" =>
    /\ last.res # Panic
    /\ (~last.input.base64 \/ last.input.chunk = None) => last.res = Err

\* C16. domain aborts on every column without rows, whatever its variant,
\* and returns a Domain only for a column with at least one row.
C16_DomainNeedsRows ==
  last.op = "domain" =>
    /\ Column_len(col) = 0 => last.res = Panic
    /\ last.res # Panic => Column_len(col) > 0

\* domain() aborted on a Null column without rows.
C16_Witness ==
  /\ last.op = "domain"
  /\ ty = TNull
  /\ Column_len(col) = 0
  /\ last.res = Panic

\* C17. For a one-row column of a non-nullable type T, domain() is the
\* domain of its row: c.domain() == c.index(0).domain(T).
C17_ColumnDomainIsScalarDomain ==
  (last.op = "domain" /\ Column_len(col) = 1 /\ ty.k # "Nullable") =>
    last.res = ScalarRef_domain(Column_index(col, 0).v, ty)

\* C18. ScalarRef::domain: a non-null scalar of a declared type Nullable(T)
\* gives Nullable{has_null: false, value: Some(s.domain(T))}; Null gives
\* Nullable{has_null: true, value: None} whatever the declared type; a
\* non-null scalar of a non-nullable type never gives a Nullable domain.
C18_ScalarDomainNullable ==
  last.op = "scalar_domain" =>
    /\ (last.s.k # "Null" /\ last.declared.k = "Nullable") =>
         last.res = DNullable(FALSE, Some(ScalarRef_domain(last.s, last.declared.inner)))
    /\ last.s.k = "Null" => last.res = DNullable(TRUE, None)
    /\ (last.s.k # "Null" /\ last.declared.k # "Nullable") =>
         (last.res # Panic /\ last.res.k # "Nullable")

\* The domain of the String "a" under the declared type Nullable(String).
C18_Witness ==
  /\ last.op = "scalar_domain"
  /\ last.s.k = "String"
  /\ last.declared = TNullable(TString)
  /\ last.res = DNullable(FALSE, Some(DString(<<97>>, Some(<<97>>))))

\* C19. wrap_nullable returns a Nullable column unchanged and wraps any
\* other column c as Nullable{column: c, validity: all true, of c.len()
\* bits}; remove_nullable returns a non-Nullable column unchanged and the
\* inner column of a Nullable one; c.wrap_nullable().remove_nullable() == c
\* for a non-Nullable c.
C19_WrapRemoveNullable ==
  /\ last.op = "wrap_nullable" =>
       /\ Column_wrap_nullable(last.res) = last.res
       /\ IF col.k = "Nullable" THEN last.res = col
          ELSE /\ last.res = CNullable(col, [i \in 1..Column_len(col) |-> TRUE])
               /\ Len(last.res.validity) = Column_len(col)
               /\ last.back = col
               /\ Column_eq(last.back, col)
  /\ last.op = "remove_nullable" =>
       /\ Column_remove_nullable(last.res) = last.res
       /\ IF col.k = "Nullable" THEN last.res = col.column ELSE last.res = col

\* wrap_nullable on a Nullable(String) column of MaxRows rows, one null.
C19_Witness ==
  /\ last.op = "wrap_nullable"
  /\ ty = TNullable(TString)
  /\ Column_len(col) = MaxRows
  /\ unset_bits(col.validity) = 1
  /\ last.res = col

\* C20. build_scalar aborts unless the builder holds exactly one row, and
\* otherwise returns the Scalar equal to build().index(0): Null for a
\* Nullable builder whose row is null, the tuple of the fields' scalars for
\* a Tuple builder.
C20_BuildScalar ==
  last.op = "build_scalar" =>
    IF Len(pushed) # 1 THEN last.res = Panic /\ pc = "panicked"
    ELSE LET row == Column_index(ColumnBuilder_build(builder), 0)
         IN  /\ last.res # Panic
             /\ row.k = "Some"
             /\ ScalarRef_eq(Scalar_as_ref(last.res), row.v)
             /\ (builder.k = "Nullable" /\ ~builder.validity[1]) => last.res = SNull
             /\ builder.k = "Tuple" =>
                  /\ last.res.k = "Tuple"
                  /\ Len(last.res.v) = Len(builder.fields)
                  /\ \A f \in 1..Len(builder.fields) :
                       last.res.v[f] = ColumnBuilder_build_scalar(builder.fields[f])

\* build_scalar on a tuple builder of one row with a null field.
C20_Witness ==
  /\ last.op = "build_scalar"
  /\ ty = TTuple(<<TNullable(TInt32), TNull>>)
  /\ Len(pushed) = 1
  /\ last.res.k = "Tuple"
  /\ last.res.v[1] = SNull

\* C21. A push of a scalar the builder does not take (another variant, Null
\* into Nullable excepted, or a tuple of another arity) aborts: no such
\* scalar is ever among the rows a builder accepted, and the aborted push
\* leaves the builder with the rows it had.
C21_MismatchedPushAborts ==
  /\ LET mismatched == MismatchedScalars(ty)
     IN  \A i \in PushedRows :
           \A j \in 1..Len(mismatched) : pushed[i].item # mismatched[j]
  /\ last.op = "push" =>
       /\ last.res = Panic
       /\ pc = "panicked"
       /\ ColumnBuilder_len(builder) = Len(pushed)

\* A tuple of one field pushed into a builder of two-field tuples that
\* holds a row already.
C21_Witness ==
  /\ last.op = "push"
  /\ last.item = STuple(<<SInt32(1)>>)
  /\ ty = TTuple(<<TInt32, TString>>)
  /\ Len(pushed) = 1

\* The builder after c.index(i), c.index(i + 1), ... are pushed into b.
RECURSIVE PushRowsOf(_, _, _)
PushRowsOf(b, c, i) ==
  IF b = Panic \/ i >= Column_len(c) THEN b
  ELSE PushRowsOf(ColumnBuilder_push(b, Column_index(c, i).v), c, i + 1)

\* C22. append_column is bulk push: the builder grows by the other column's
\* len(), its earlier rows read as before, and it builds the column that
\* pushing the other column's rows one by one builds; a column of another
\* variant, or a Tuple of another arity, aborts.
C22_AppendColumnIsBulkPush ==
  last.op = "append_column" =>
    LET b == last.before
        c == last.other
    IN  IF c.k # b.k \/ (c.k = "Tuple" /\ Len(c.fields) # Len(b.fields))
        THEN last.res = Panic
        ELSE /\ last.res # Panic
             /\ ColumnBuilder_len(last.res) = ColumnBuilder_len(b) + Column_len(c)
             /\ \A i \in 0..(ColumnBuilder_len(b) - 1) :
                  ScalarRef_eq(Column_index(ColumnBuilder_build(last.res), i).v,
                               Column_index(ColumnBuilder_build(b), i).v)
             /\ ColumnBuilder_build(last.res) = ColumnBuilder_build(PushRowsOf(b, c, 0))

\* An Array column sliced past its first row, so that its offsets do not
\* start at zero, appended to a builder of two rows.
C22_Witness ==
  /\ last.op = "append_column"
  /\ last.res # Panic
  /\ ty = TArray(TInt32)
  /\ Column_len(last.other) = 1
  /\ last.other.offsets[1] > 0
  /\ ColumnBuilder_len(last.before) = 2

\* Every row of both columns, and their lengths, are equal.
RowsEqual(c1, c2) ==
  /\ Column_len(c1) = Column_len(c2)
  /\ \A i \in 0..(Column_len(c1) - 1) :
       Column_index(c2, i) # None
         /\ ScalarRef_eq(Column_index(c1, i).v, Column_index(c2, i).v)

\* C23. semantically_eq treats a scalar as broadcast: two scalars compare
\* as s1 == s2, two columns row by row, a scalar and a column are equal
\* exactly when every row of the column equals the scalar (so for a column
\* without rows), and the result is the same with the arguments exchanged.
C23_SemanticallyEq ==
  last.op = "semantically_eq" =>
    /\ last.res = last.rev
    /\ last.res =
         CASE last.a.k = "Scalar" /\ last.b.k = "Scalar" ->
                ScalarRef_eq(last.a.v, last.b.v)
           [] last.a.k = "Column" /\ last.b.k = "Column" ->
                RowsEqual(last.a.v, last.b.v)
           [] last.a.k = "Column" /\ last.b.k = "Scalar" ->
                \A i \in 0..(Column_len(last.a.v) - 1) :
                  ScalarRef_eq(Column_index(last.a.v, i).v, last.b.v)

\* C29. Column equality implies equal length: two columns that compare
\* equal have the same len() and equal rows at every index, Tuple columns
\* (compared by their field columns) and Null, EmptyArray and EmptyMap
\* columns included.
C29_ColumnEqImpliesEqualLen ==
  (last.op = "semantically_eq" /\ last.a.k = "Column" /\ last.b.k = "Column") =>
    (Column_eq(last.a.v, last.b.v) => RowsEqual(last.a.v, last.b.v))

\* C24. convert_to_full_column(ty, n) of a scalar is a column of n rows that
\* all equal the scalar: all valid for a non-null scalar of a Nullable type,
\* all null for Null, n rows in every field of a Tuple; of a column, it is
\* the column.
C24_ConvertToFullColumn ==
  last.op = "convert_to_full_column" =>
    /\ pc = "built"
    /\ IF last.value.k = "Column" THEN col = last.value.v
       ELSE /\ Column_len(col) = last.n
            /\ \A i \in 0..(last.n - 1) :
                 Column_index(col, i) # None
                   /\ ScalarRef_eq(Column_index(col, i).v, last.value.v)
            /\ ty.k = "Nullable" =>
                 /\ col.k = "Nullable"
                 /\ col.validity = [i \in 1..last.n |-> last.value.v # SNull]
                 /\ Column_len(col.column) = last.n
            /\ ty.k = "Tuple" =>
                 /\ col.k = "Tuple"
                 /\ Len(col.fields) = Len(ty.fields)
                 /\ \A f \in 1..Len(col.fields) : Column_len(col.fields[f]) = last.n

\* A tuple with a null field, repeated MaxRows times.
C24_Witness ==
  /\ last.op = "convert_to_full_column"
  /\ last.value = [k |-> "Scalar", v |-> STuple(<<SNull, SNull>>)]
  /\ last.n = MaxRows
  /\ pc = "built"

RECURSIVE BuilderTupleRows(_)
\* Every Tuple builder in b holds field builders of its own len.
BuilderTupleRows(b) ==
  CASE b.k = "Tuple" ->
         \A f \in 1..Len(b.fields) :
           ColumnBuilder_len(b.fields[f]) = b.len /\ BuilderTupleRows(b.fields[f])
    [] b.k \in {"Array", "Map", "Nullable"} -> BuilderTupleRows(b.builder)
    [] OTHER -> TRUE

RECURSIVE ColumnTupleRows(_)
\* Every Tuple column in c holds field columns of its own len.
ColumnTupleRows(c) ==
  CASE c.k = "Tuple" ->
         \A f \in 1..Len(c.fields) :
           Column_len(c.fields[f]) = c.len /\ ColumnTupleRows(c.fields[f])
    [] c.k \in {"Array", "Map"} -> ColumnTupleRows(c.values)
    [] c.k = "Nullable" -> ColumnTupleRows(c.column)
    [] OTHER -> TRUE

\* C26. Tuple row count: whatever successful push, push_default and
\* append_column calls are made on a builder from with_capacity or repeat,
\* every field builder of a Tuple builder has the tuple's len, and so has
\* every field column of the column build() returns.
C26_TupleRowCount ==
  /\ pc = "building" => BuilderTupleRows(builder)
  /\ (pc = "built" /\ views = << >>) => ColumnTupleRows(col)

\* A built tuple column of MaxRows rows whose Nullable field holds a null
\* row and then a row that is not null.
C26_Witness ==
  /\ pc = "built"
  /\ views = << >>
  /\ ty = TTuple(<<TNullable(TInt32), TNull>>)
  /\ Len(pushed) = MaxRows
  /\ col.len = MaxRows
  /\ ~col.fields[1].validity[1]
  /\ col.fields[1].validity[2]

\* C25. Column::iter is finite and exact-size: a new iterator starts at row
\* 0; the k-th next() call yields c.index(k - 1) while k <= len() and None
\* on every later call; before the first call and after every call
\* size_hint() is (remaining, Some(remaining)), remaining being len() less
\* the items yielded so far.
C25_IterExactSize ==
  last.op = "iter" =>
    LET len == Column_len(Cur)
        yielded(k) == IF k < len THEN k ELSE len
    IN  /\ last.iter.index = 0
        /\ ColumnIterator_size_hint(last.iter) = << len, Some(len) >>
        /\ Len(last.calls) = len + 2
        /\ \A k \in 1..Len(last.calls) :
             /\ last.calls[k].item = IF k <= len THEN Column_index(Cur, k - 1) ELSE None
             /\ k <= len => last.calls[k].item # None
             /\ ColumnIterator_size_hint(last.calls[k].iter)
                  = << len - yielded(k), Some(len - yielded(k)) >>

\* A slice of two rows iterated to the second call past its end.
C25_Witness ==
  /\ last.op = "iter"
  /\ Len(views) = 1
  /\ Column_len(Cur) = 2
  /\ Len(last.calls) = 4
  /\ last.calls[2].item # None
  /\ last.calls[4].item = None

\* C28. Column::domain returns a Domain without aborting for every
\* well-formed column with len() > 0, of every variant and nesting: also for
\* an Array or Map column whose rows are all empty, a Nullable column whose
\* rows are all null, and a Tuple with such fields.
C28_DomainDoesNotAbort ==
  (last.op = "domain" /\ Column_len(col) > 0) => last.res # Panic

\* The microseconds of x in the unit, exactly: y is that value.
ExactMicros(unit, x, y) ==
  LET wx == sign_extend(x, 12)
      wy == sign_extend(y, 12)
  IN  CASE unit = "Second" -> wy = mul_add(wx, 1000000, 0)
        [] unit = "Millisecond" -> wy = mul_add(wx, 1000, 0)
        [] unit = "Microsecond" -> y = x
        [] unit = "Nanosecond" ->
             \E r \in 0..999 : IF x[8] < 128 THEN mul_add(wy, 1000, r) = wx
                                ELSE mul_add(wx, 1, r) = mul_add(wy, 1000, 0)

\* C27. from_arrow normalizes every external timestamp to microseconds: x
\* seconds become x * 1_000_000, x milliseconds x * 1_000, x microseconds
\* x, x nanoseconds x / 1_000 truncated toward zero; the result is the
\* exact value for every 64-bit x, without overflow or wrap-around.
C27_TimestampScaling ==
  last.op = "from_arrow" =>
    /\ last.res # Panic
    /\ last.res.k = "Timestamp"
    /\ Len(last.res.vals) = Len(last.arrow_col.values)
    /\ \A i \in 1..Len(last.arrow_col.values) :
         ExactMicros(last.arrow_col.data_type.name, last.arrow_col.values[i],
                     last.res.vals[i])

\* The stages of the select dry run, in the order of the claim.
StageOrder ==
  << "filter", "before_group_by", "group_by", "expressions", "having", "order_by",
     "projection" >>

\* Whether the select has the stage.
StagePresent(stage) ==
  LET state == last.state
  IN  CASE stage = "filter" -> state.filter # None
        [] stage = "before_group_by" -> state.before_group_by_expressions # << >>
        [] stage = "group_by" -> \/ state.group_by_expressions # << >>
                                 \/ state.aggregate_expressions # << >>
        [] stage = "expressions" -> state.expressions # << >>
        [] stage = "having" -> state.having # None
        [] stage = "order_by" -> state.order_by_expressions # << >>
        [] stage = "projection" -> state.projection_expressions # << >>

\* The suffix the claim gives the stage's error.
StageSuffix(stage) ==
  CASE stage = "filter" -> " (while in select filter)"
    [] stage = "before_group_by" -> " (while in select before group by)"
    [] stage = "group_by" -> " (while in select group by)"
    [] stage = "expressions" -> IF last.state.order_by_expressions = << >>
                                THEN " (while in select before projection)"
                                ELSE " (while in select before order by)"
    [] stage = "having" -> " (while in select having)"
    [] stage = "order_by" -> " (while in select order by)"
    [] stage = "projection" -> " (while in select projection)"

\* C30. verify_with_dry_run checks the stages in the order filter,
\* before-group-by, group-by plus aggregate, expressions, having, order-by,
\* projection, each present stage once and none skipped; the first stage
\* that fails ends the run: its error is returned with the stage's suffix
\* added and no later stage is evaluated; the suffix of the expressions
\* stage tells whether order-by expressions exist; Ok is returned only when
\* every present stage succeeded.
C30_DryRunStageOrder ==
  last.op = "verify_with_dry_run" =>
    LET ev == last.evaluated
        rank(s) == CHOOSE i \in 1..Len(StageOrder) : StageOrder[i] = s
        failed(i) == ev[i].res.k = "Err"
        stopped == ev # << >> /\ failed(Len(ev))
        reached == IF stopped THEN rank(ev[Len(ev)].stage) + 1
                   ELSE IF pc = "returned" THEN Len(StageOrder) + 1 ELSE rank(pc)
    IN  /\ \A i \in 1..Len(ev) : StagePresent(ev[i].stage)
        /\ \A i, j \in 1..Len(ev) : i < j => rank(ev[i].stage) < rank(ev[j].stage)
        /\ \A k \in 1..Len(StageOrder) :
             (StagePresent(StageOrder[k]) /\ k < reached) <=>
               \E i \in 1..Len(ev) : ev[i].stage = StageOrder[k]
        /\ \A i \in 1..Len(ev) :
             failed(i) =>
               /\ i = Len(ev)
               /\ pc = "returned"
               /\ last.res = [k |-> "Err", cause |-> ev[i].res.cause,
                              message |-> << StageSuffix(ev[i].stage) >>]
        /\ pc # "returned" => last.res = None
        /\ pc = "returned" =>
             IF stopped THEN last.res.k = "Err"
             ELSE /\ last.res = Ok(last.data_block)
                  /\ \A k \in 1..Len(StageOrder) :
                       StagePresent(StageOrder[k]) =>
                         \E i \in 1..Len(ev) : ev[i].stage = StageOrder[k] /\ ~failed(i)

\* The expressions stage fails after two stages that succeeded, in a select
\* with order-by expressions and a having that is never evaluated.
C30_Witness ==
  /\ last.op = "verify_with_dry_run"
  /\ pc = "returned"
  /\ last.res.k = "Err"
  /\ Len(last.evaluated) = 3
  /\ last.evaluated[3].stage = "expressions"
  /\ last.res.message = << " (while in select before order by)" >>
  /\ last.state.having # None
  /\ last.state.order_by_expressions # << >>
====
